---- MODULE Spec2Model ----
(***************************************************************************)
(* x402-stacks: the V2 payment gate (middleware-v2.ts), the facilitator    *)
(* clients (verifier-v2.ts, verifier.ts), the axios 402 handler            *)
(* (interceptor-v2.ts) and the legacy client (client.ts).                  *)
(*                                                                         *)
(* JavaScript values are modelled as records and strings.  A field that    *)
(* is absent (reads as undefined) holds the value Undefined.               *)
(***************************************************************************)
EXTENDS Integers, Sequences, FiniteSets, TLC

Undefined == "undefined"

\* ----- bounds of the model -----
\* longest `accepts` list of a 402 notice
MaxAccepts == 2
\* number of request config objects that may exist in one run
MaxConfigs == 3
\* largest maxRetries of X402PaymentClient.requestWithPayment
MaxRetriesBound == 2

\* paymentRateLimit: the largest free tier, the requests of one run, the
\* last clock value
MaxFreeRequests == 2

MaxRequests == 5

MaxClock == 4

\* waitForConfirmation: the largest maxAttempts
MaxAttempts == 3

\* ----- the state -----
VARIABLES
  gateConfig,        \* config of paymentMiddleware(config)
  gatePc,            \* where the middleware is: idle, settling, validating, done
  gateReq,           \* the request: header, url, and req.payment
  gateRes,           \* the response written by the gate
  nextCalls,         \* invocations of next() for this request
  settleCalls,       \* verifier.settle calls made for this request
  settlementResult,  \* what verifier.settle resolved to
  validatorCalls,    \* calls of config.paymentValidator for this request
  gateApi,           \* the gate mounted: paymentMiddleware, paymentMiddlewareV1
                     \* or the earlier x402PaymentRequired
  v1Gate             \* the legacy gate: config, request, verification, response

gateVars == << gateConfig, gatePc, gateReq, gateRes, nextCalls, settleCalls,
               settlementResult, validatorCalls, gateApi, v1Gate >>

VARIABLES
  fcCall,     \* the facilitator-client operation called, and the outcome of its POST
  fcResult    \* the value it returned, or the exception it threw

fcVars == << fcCall, fcResult >>

VARIABLES
  clientApi,         \* which client the application drives: "axios" or "legacy"
  account,           \* the StacksAccount given to wrapAxiosWithPayment
  clonesConfig,      \* axiosInstance.request builds a new config object per request
  configs,           \* the request config objects made so far: TRUE once the handler
                     \* has set a payment-signature header on the object
  sentHeader,        \* the payment-signature header of the request now in flight
  paymentAttempted,  \* the WeakSet of config objects (their indices in configs)
  inflight,          \* index of the config of the request awaiting its response, 0 if none
  callStatus,        \* the promise of the application's call: idle, awaiting, resolved, rejected
  callError,         \* the error the call was rejected with
  callSigns,         \* signPaymentV2 invocations during the current call
  callRetries,       \* axiosInstance.request(originalRequest) re-issues during the current call
  signedFor,         \* signPaymentV2 invocations per config object
  lastRun,           \* the last run of the 402 handler: what it saw and did
  stacksCalls,       \* @stacks/transactions functions called, and by which operation
  legacy             \* X402PaymentClient: its network and the requestWithPayment call

axiosVars == << account, clonesConfig, configs, paymentAttempted, inflight, sentHeader, callStatus,
                callError, callSigns, callRetries, signedFor, lastRun >>

clientVars == << clientApi, axiosVars, stacksCalls, legacy >>

VARIABLES
  limiter    \* paymentRateLimit: its config, requestCounts, the clock, and
             \* what it did with each request

\* ----- types-v2.ts -----
STACKS_MAINNET == "stacks:1"
STACKS_TESTNET == "stacks:2147483648"
UNEXPECTED_SETTLE_ERROR == "unexpected_settle_error"
UNEXPECTED_VERIFY_ERROR == "unexpected_verify_error"
INVALID_PAYLOAD == "invalid_payload"
INVALID_X402_VERSION == "invalid_x402_version"

\* JavaScript truthiness of a string-valued field: undefined and "" are falsy
Truthy(v) == v # Undefined /\ v # ""

\* a || b
OrElse(a, b) == IF Truthy(a) THEN a ELSE b

(***************************************************************************)
(* utils.ts: CAIP-2 and asset conversions                                  *)
(***************************************************************************)
networkToCAIP2(network) ==
  IF network = "mainnet" THEN STACKS_MAINNET ELSE STACKS_TESTNET

\* the inverse; an unrecognised chain identifier fails (UnsupportedNetwork)
networkFromCAIP2(caip2) ==
  CASE caip2 = STACKS_MAINNET -> "mainnet"
    [] caip2 = STACKS_TESTNET -> "testnet"
    [] OTHER -> "throw"

\* native symbol for the default asset, contract reference otherwise
assetToV2(tokenType, tokenContract) ==
  IF tokenType = "STX" THEN "STX"
  ELSE IF tokenContract # Undefined THEN tokenContract
  ELSE tokenType

(***************************************************************************)
(* The remote facilitator as seen through axios: the outcome of one POST.  *)
(*   kind: "2xx" | "non2xx" | "timeout" | "refused"                        *)
(*   body: "nobody" (empty), "null" (JSON null) or a JSON object           *)
(***************************************************************************)
SettleBodies ==
  [type : {"object"},
   success : {"true", "false", Undefined},
   errorReason : {Undefined, "", "insufficient_funds"},
   payer : {Undefined, "SP_PAYER"},
   transaction : {Undefined, "0xtx"},
   network : {Undefined, STACKS_MAINNET}]

NoBody == [type |-> "nobody"]
NullBody == [type |-> "null"]

SettleOutcomes ==
  [kind : {"2xx", "non2xx"}, body : SettleBodies \cup {NoBody, NullBody}]
  \cup [kind : {"timeout", "refused"}, body : {NoBody}]

\* error.response?.data is truthy
HasResponseData(outcome) ==
  outcome.kind = "non2xx" /\ outcome.body.type = "object"

settle_SuccessPassthrough(paymentPayload, options, outcome) ==
  IF outcome.kind = "2xx" THEN outcome.body
  ELSE IF HasResponseData(outcome)
    THEN [type |-> "object",
          success |-> outcome.body.success,
          errorReason |-> OrElse(outcome.body.errorReason, UNEXPECTED_SETTLE_ERROR),
          payer |-> outcome.body.payer,
          transaction |-> OrElse(outcome.body.transaction, ""),
          network |-> OrElse(outcome.body.network, options.paymentRequirements.network)]
    ELSE [type |-> "object",
          success |-> "false",
          errorReason |-> UNEXPECTED_SETTLE_ERROR,
          payer |-> Undefined,
          transaction |-> "",
          network |-> options.paymentRequirements.network]

\* X402PaymentVerifier.settle (V2): the value the promise resolves to
settle(paymentPayload, options, outcome) ==
  IF outcome.kind = "2xx" THEN outcome.body
  ELSE IF HasResponseData(outcome)
    THEN [type |-> "object",
          success |-> "false",
          errorReason |-> OrElse(outcome.body.errorReason, UNEXPECTED_SETTLE_ERROR),
          payer |-> outcome.body.payer,
          transaction |-> OrElse(outcome.body.transaction, ""),
          network |-> OrElse(outcome.body.network, options.paymentRequirements.network)]
    ELSE [type |-> "object",
          success |-> "false",
          errorReason |-> UNEXPECTED_SETTLE_ERROR,
          payer |-> Undefined,
          transaction |-> "",
          network |-> options.paymentRequirements.network]

\* reading property p of a settle result: '' has no own fields, null throws
Field(v, p) ==
  IF v.type = "object" THEN v[p] ELSE Undefined

VerifyBodies ==
  [type : {"object"},
   isValid : {"true", "false", Undefined},
   invalidReason : {Undefined, "", "invalid_payload"},
   payer : {Undefined, "SP_PAYER"}]

VerifyOutcomes ==
  [kind : {"2xx", "non2xx"}, body : VerifyBodies \cup {NoBody, NullBody}]
  \cup [kind : {"timeout", "refused"}, body : {NoBody}]

\* X402PaymentVerifier.verify (V2)
verify(paymentPayload, options, outcome) ==
  IF outcome.kind = "2xx" THEN outcome.body
  ELSE IF HasResponseData(outcome)
    THEN [type |-> "object",
          isValid |-> "false",
          invalidReason |-> OrElse(outcome.body.invalidReason, UNEXPECTED_VERIFY_ERROR),
          payer |-> outcome.body.payer]
    ELSE [type |-> "object",
          isValid |-> "false",
          invalidReason |-> UNEXPECTED_VERIFY_ERROR,
          payer |-> Undefined]

(***************************************************************************)
(* verifier.ts: the legacy facilitator client                              *)
(***************************************************************************)
\* JSON numbers a facilitator may put in `amount`: absent, an integral
\* number, a number with a fractional part
JsonAmounts == {Undefined, "100000", "0.5"}

\* BigInt(x || 0): BigInt of a non-integral number throws a RangeError
BigIntOrZero(x) ==
  CASE x = Undefined -> "0"
    [] x = "0.5" -> "throw"
    [] OTHER -> x

\* a thrown exception leaving the operation
Thrown(message) == [type |-> "throw", message |-> message]

LegacySettleBodies ==
  [type : {"object"},
   success : {"true", "false", Undefined},
   status : {"confirmed", "pending", Undefined},
   amount : JsonAmounts,
   validation_errors : {Undefined, "amount too low"},
   error : {Undefined, "settle error"}]

LegacySettleOutcomes ==
  [kind : {"2xx", "non2xx"}, body : LegacySettleBodies \cup {NoBody, NullBody}]
  \cup [kind : {"timeout", "refused"}, body : {NoBody}]

\* the message of the AxiosError of a failed call
TransportMessage(outcome) ==
  CASE outcome.kind = "timeout" -> "timeout of 15000ms exceeded"
    [] outcome.kind = "refused" -> "connect ECONNREFUSED"
    [] OTHER -> "Request failed with status code"

\* verifier.ts 228-236 and 128-136: the result of the last return of a catch
LegacyFailure(status, message) ==
  [type |-> "object", txId |-> "", status |-> status, amount |-> "0",
   isValid |-> "false", validationError |-> message]

\* verifier.ts 243-263
mapSettleResponse(data) ==
  IF data.type = "null" THEN Thrown("TypeError: null")
  ELSE IF BigIntOrZero(Field(data, "amount")) = "throw" THEN Thrown("RangeError")
  ELSE
    [type |-> "object",
     txId |-> "",
     status |-> IF Field(data, "success") = "true" /\ Field(data, "status") = "confirmed"
                THEN "success"
                ELSE IF Field(data, "status") = "pending" THEN "pending" ELSE "failed",
     amount |-> BigIntOrZero(Field(data, "amount")),
     isValid |-> IF Field(data, "success") = "true" /\ Field(data, "status") = "confirmed"
                 THEN "true" ELSE "false",
     validationError |-> OrElse(Field(data, "validation_errors"), Field(data, "error"))]

\* verifier.ts 181-238: X402PaymentVerifier.settlePayment
settlePayment(signedTransaction, options, outcome) ==
  IF outcome.kind = "2xx"
  THEN \* an exception of mapSettleResponse is caught by the catch of line 208
       IF mapSettleResponse(outcome.body).type = "throw"
       THEN LegacyFailure("failed", mapSettleResponse(outcome.body).message)
       ELSE mapSettleResponse(outcome.body)
  ELSE IF HasResponseData(outcome) /\ outcome.body.success = "false"
  THEN \* lines 214-224, inside the catch block: nothing catches BigInt
       IF BigIntOrZero(outcome.body.amount) = "throw" THEN Thrown("RangeError")
       ELSE [type |-> "object",
             txId |-> "",
             status |-> "failed",
             amount |-> BigIntOrZero(outcome.body.amount),
             isValid |-> "false",
             validationError |-> OrElse(outcome.body.validation_errors,
                                        OrElse(outcome.body.error, "Settlement failed"))]
  ELSE LegacyFailure("failed", TransportMessage(outcome))

LegacyVerifyBodies ==
  [type : {"object"},
   valid : {"true", "false", Undefined},
   status : {"confirmed", "pending", "failed", Undefined},
   amount : JsonAmounts,
   validation_errors : {Undefined, "amount too low"},
   error : {Undefined, "verify error"}]

LegacyVerifyOutcomes ==
  [kind : {"2xx", "non2xx"}, body : LegacyVerifyBodies \cup {NoBody, NullBody}]
  \cup [kind : {"timeout", "refused"}, body : {NoBody}]

\* verifier.ts 143-166
mapFacilitatorResponse(txId, data) ==
  IF data.type = "null" THEN Thrown("TypeError: null")
  ELSE IF BigIntOrZero(Field(data, "amount")) = "throw" THEN Thrown("RangeError")
  ELSE
    [type |-> "object",
     txId |-> txId,
     status |-> CASE Field(data, "status") = "confirmed" -> "success"
                  [] Field(data, "status") = "pending" -> "pending"
                  [] Field(data, "status") = "failed" -> "failed"
                  [] OTHER -> "not_found",
     amount |-> BigIntOrZero(Field(data, "amount")),
     isValid |-> Field(data, "valid"),
     validationError |-> Field(data, "validation_errors")]

\* verifier.ts 65-138: X402PaymentVerifier.verifyPayment
verifyPayment(txId, options, outcome) ==
  IF outcome.kind = "2xx"
  THEN IF mapFacilitatorResponse(txId, outcome.body).type = "throw"
       THEN LegacyFailure("not_found", mapFacilitatorResponse(txId, outcome.body).message)
       ELSE mapFacilitatorResponse(txId, outcome.body)
  ELSE IF HasResponseData(outcome) /\ outcome.body.valid = "false"
  THEN \* lines 100-111, inside the catch block
       IF BigIntOrZero(outcome.body.amount) = "throw" THEN Thrown("RangeError")
       ELSE [type |-> "object",
             txId |-> txId,
             status |-> "not_found",
             amount |-> BigIntOrZero(outcome.body.amount),
             isValid |-> "false",
             validationError |-> OrElse(outcome.body.validation_errors,
                                        "Payment validation failed")]
  ELSE IF HasResponseData(outcome) /\ Truthy(outcome.body.error)
  THEN [LegacyFailure("not_found", outcome.body.error) EXCEPT !.txId = txId]
  ELSE [LegacyFailure("not_found", TransportMessage(outcome)) EXCEPT !.txId = txId]

(***************************************************************************)
(* One call of a facilitator-client operation and what it gave back        *)
(***************************************************************************)
InitFacilitator ==
  /\ fcCall = [op |-> "none"]
  /\ fcResult = NoBody

RequirementNetworks == {STACKS_MAINNET, STACKS_TESTNET}

FcSettle ==
  \E network \in RequirementNetworks : \E outcome \in SettleOutcomes :
    /\ UNCHANGED << gateVars, clientVars, limiter >>
    /\ fcCall' = [op |-> "settle", network |-> network, outcome |-> outcome]
    /\ fcResult' = settle([x402Version |-> 2],
                          [paymentRequirements |-> [network |-> network]], outcome)

FcVerify ==
  \E network \in RequirementNetworks : \E outcome \in VerifyOutcomes :
    /\ UNCHANGED << gateVars, clientVars, limiter >>
    /\ fcCall' = [op |-> "verify", network |-> network, outcome |-> outcome]
    /\ fcResult' = verify([x402Version |-> 2],
                          [paymentRequirements |-> [network |-> network]], outcome)

FcSettlePayment ==
  \E outcome \in LegacySettleOutcomes :
    /\ UNCHANGED << gateVars, clientVars, limiter >>
    /\ fcCall' = [op |-> "settlePayment", network |-> "testnet", outcome |-> outcome]
    /\ fcResult' = settlePayment("0xsigned", [tokenType |-> "STX"], outcome)

FcVerifyPayment ==
  \E outcome \in LegacyVerifyOutcomes :
    /\ UNCHANGED << gateVars, clientVars, limiter >>
    /\ fcCall' = [op |-> "verifyPayment", network |-> "testnet", outcome |-> outcome]
    /\ fcResult' = verifyPayment("0xtxid", [tokenType |-> "STX"], outcome)

\* what one run of an operation returned and the endpoints it called, in order
Ran(calls, result) == [type |-> "run", calls |-> calls, result |-> result]

verifyAndSettle_SettleAnyway(paymentPayload, options, verifyOutcome, settleOutcome) ==
  Ran(<< "verify", "settle" >>, settle(paymentPayload, options, settleOutcome))

\* X402PaymentVerifier.verifyAndSettle, part_008 lines 174-197
verifyAndSettle(paymentPayload, options, verifyOutcome, settleOutcome) ==
  LET verifyResult == verify(paymentPayload, options, verifyOutcome) IN
  IF verifyResult.type = "null"
  THEN \* reading .isValid of null throws
       Ran(<< "verify" >>, Thrown("TypeError: null"))
  ELSE IF Field(verifyResult, "isValid") # "true"
  THEN Ran(<< "verify" >>,
           [type |-> "object",
            success |-> "false",
            errorReason |-> OrElse(Field(verifyResult, "invalidReason"),
                                   UNEXPECTED_VERIFY_ERROR),
            payer |-> Field(verifyResult, "payer"),
            transaction |-> "",
            network |-> options.paymentRequirements.network])
  ELSE Ran(<< "verify", "settle" >>, settle(paymentPayload, options, settleOutcome))

\* the answers of the settle endpoint that verifyAndSettle is run against
FewSettleOutcomes ==
  {o \in SettleOutcomes :
     \/ o.body \in {NoBody, NullBody}
     \/ /\ o.body.type = "object"
        /\ o.body.payer = "SP_PAYER" /\ o.body.network = STACKS_MAINNET
        /\ o.body.errorReason = Undefined /\ o.body.transaction = "0xtx"
        /\ o.body.success \in {"true", "false"}}

\* GET /supported: what the transport gives back
SupportedKinds ==
  [x402Version : {1, 2}, scheme : {"exact"}, network : {STACKS_MAINNET, STACKS_TESTNET}]

SupportedBodies ==
  {[type |-> "object", kinds |-> kinds, extensions |-> {}, signers |-> "{}"] :
     kinds \in {{}, {[x402Version |-> 2, scheme |-> "exact", network |-> STACKS_MAINNET]},
                SupportedKinds}}

SupportedOutcomes ==
  [kind : {"2xx", "non2xx"}, body : SupportedBodies \cup {NoBody, NullBody}]
  \cup [kind : {"timeout", "refused"}, body : {NoBody}]

\* part_008 lines 147-152
EmptySupported == [type |-> "object", kinds |-> {}, extensions |-> {}, signers |-> "{}"]

getSupported_Rethrow(outcome) ==
  IF outcome.kind = "2xx" THEN outcome.body ELSE Thrown(outcome.kind)

\* X402PaymentVerifier.getSupported, part_008 lines 139-153
getSupported(outcome) ==
  IF outcome.kind = "2xx" THEN outcome.body ELSE EmptySupported

\* X402PaymentVerifier.isKindSupported, part_008 lines 158-171: reading
\* kinds of a body that has none is a TypeError
isKindSupported(network, scheme, x402Version, outcome) ==
  LET supported == getSupported(outcome) IN
  IF supported.type = "throw" THEN supported
  ELSE IF supported.type # "object" THEN Thrown("TypeError")
  ELSE [type |-> "boolean",
        value |-> \E kind \in supported.kinds :
                    /\ kind.x402Version = x402Version
                    /\ kind.scheme = scheme
                    /\ kind.network = network]

FcGetSupported ==
  \E outcome \in SupportedOutcomes :
    /\ UNCHANGED << gateVars, clientVars, limiter >>
    /\ fcCall' = [op |-> "getSupported", network |-> Undefined, outcome |-> outcome]
    /\ fcResult' = getSupported(outcome)

FcIsKindSupported ==
  \E network \in RequirementNetworks : \E outcome \in SupportedOutcomes :
    /\ UNCHANGED << gateVars, clientVars, limiter >>
    /\ fcCall' = [op |-> "isKindSupported", network |-> network, outcome |-> outcome]
    /\ fcResult' = isKindSupported(network, "exact", 2, outcome)

FcVerifyAndSettle ==
  \E verifyOutcome \in VerifyOutcomes : \E settleOutcome \in FewSettleOutcomes :
    /\ UNCHANGED << gateVars, clientVars, limiter >>
    /\ fcCall' = [op |-> "verifyAndSettle", network |-> STACKS_TESTNET,
                  outcome |-> verifyOutcome, settleOutcome |-> settleOutcome]
    /\ fcResult' = verifyAndSettle([x402Version |-> 2],
                                   [paymentRequirements |-> [network |-> STACKS_TESTNET]],
                                   verifyOutcome, settleOutcome)

\* waitForConfirmation, verifier.ts lines 265-291: the poller's loop index,
\* the verifyPayment calls it made and the last verification it saw
Poller(maxAttempts, i, pc, last) ==
  [op |-> "waitForConfirmation", network |-> "testnet", maxAttempts |-> maxAttempts,
   i |-> i, pc |-> pc, last |-> last]

KeepsPolling_OneMore(i, maxAttempts) == i <= maxAttempts

\* line 275: the loop condition i < maxAttempts
KeepsPolling(i, maxAttempts) == i < maxAttempts

\* waitForConfirmation is called
WaitForConfirmationCalled ==
  /\ fcCall.op = "waitForConfirmation" => fcCall.pc = "done"
  /\ UNCHANGED << gateVars, clientVars, limiter >>
  /\ \E maxAttempts \in 0..MaxAttempts :
       IF KeepsPolling(0, maxAttempts)
       THEN /\ fcCall' = Poller(maxAttempts, 0, "polling", NoBody)
            /\ fcResult' = NoBody
       ELSE /\ fcCall' = Poller(maxAttempts, 0, "done", NoBody)
            /\ fcResult' = NullBody

\* lines 276-287: one turn of the loop: verifyPayment resolves, the result
\* is returned, or the error thrown, or the timer runs and the loop
\* condition is tested again
WaitForConfirmationPolls ==
  /\ fcCall.op = "waitForConfirmation" /\ fcCall.pc = "polling"
  /\ UNCHANGED << gateVars, clientVars, limiter >>
  /\ \E outcome \in LegacyVerifyOutcomes :
       LET verification == verifyPayment("0xtxid", [tokenType |-> "STX"], outcome)
           polled == [fcCall EXCEPT !.i = @ + 1, !.last = verification]
       IN IF verification.type = "throw"
          THEN \* verifyPayment rejected: the rejection leaves the loop
               /\ fcCall' = [polled EXCEPT !.pc = "done"]
               /\ fcResult' = verification
          ELSE IF verification.isValid = "true" /\ verification.status = "success"
          THEN /\ fcCall' = [polled EXCEPT !.pc = "done"]
               /\ fcResult' = verification
          ELSE IF verification.status = "failed"
          THEN /\ fcCall' = [polled EXCEPT !.pc = "done"]
               /\ fcResult' = Thrown("Transaction failed")
          ELSE IF KeepsPolling(polled.i, polled.maxAttempts)
          THEN /\ fcCall' = polled
               /\ fcResult' = NoBody
          ELSE /\ fcCall' = [polled EXCEPT !.pc = "done"]
               /\ fcResult' = NullBody

(***************************************************************************)
(* middleware-v2.ts: the V2 gate                                           *)
(***************************************************************************)
GateConfigs ==
  [network : {"testnet", STACKS_MAINNET},
   amount : {"100000"},
   asset : {Undefined},
   tokenType : {Undefined},
   tokenContract : {Undefined},
   payTo : {"SP_MERCHANT"},
   scheme : {Undefined},
   maxTimeoutSeconds : {0, 60},
   description : {"premium"},
   hasValidator : BOOLEAN]

\* lines 74-76
GateNetwork(config) ==
  IF config.network \in {STACKS_MAINNET, STACKS_TESTNET}
  THEN config.network ELSE networkToCAIP2(config.network)

\* line 79
GateAsset(config) ==
  IF Truthy(config.asset) THEN config.asset
  ELSE assetToV2(OrElse(config.tokenType, "STX"), config.tokenContract)

\* lines 112-120 and 194-202
BuildRequirements(config) ==
  [scheme |-> OrElse(config.scheme, "exact"),
   network |-> GateNetwork(config),
   amount |-> config.amount,
   asset |-> GateAsset(config),
   payTo |-> config.payTo,
   maxTimeoutSeconds |-> IF config.maxTimeoutSeconds = 0 THEN 300 ELSE config.maxTimeoutSeconds]

createPaymentRequiredResponse_DefaultTimeout(url, config) ==
  [x402Version |-> 2,
   resource |-> [url |-> url, description |-> config.description],
   accepts |-> << [BuildRequirements(config) EXCEPT !.maxTimeoutSeconds = 300] >>]

\* lines 182-209
createPaymentRequiredResponse(url, config) ==
  [x402Version |-> 2,
   resource |-> [url |-> url, description |-> config.description],
   accepts |-> << BuildRequirements(config) >>]

\* Buffer.from(JSON.stringify(v)).toString('base64'): a header value that
\* is no longer the object itself and has to be decoded to be read
EncodeBase64Json(v) == [kind |-> "b64json", value |-> v]

\* the payment-signature header values a request may carry
Tamper(r) ==
  {r,
   [r EXCEPT !.scheme = "upto"],
   [r EXCEPT !.network = IF r.network = STACKS_MAINNET THEN STACKS_TESTNET ELSE STACKS_MAINNET],
   [r EXCEPT !.amount = "1"],
   [r EXCEPT !.asset = "SP_OTHER.token"],
   [r EXCEPT !.payTo = "SP_ATTACKER"],
   [r EXCEPT !.maxTimeoutSeconds = 999999]}

\* seconds between the notice a payment answers and the request that
\* presents it; no header or payload field carries it to the gate
NoticeAges == {0, 301}

PaymentPayloads(config) ==
  [type : {"object"},
   x402Version : {1, 2},
   accepted : Tamper(BuildRequirements(config)),
   payload : {[transaction |-> "0xsigned"]},
   noticeAge : NoticeAges]

SignatureHeaders(config) ==
  {[kind |-> "absent"], [kind |-> "empty"], [kind |-> "garbage"]}
  \cup {EncodeBase64Json(v) : v \in {[type |-> "null"], [type |-> "number"]}}
  \cup {EncodeBase64Json(v) : v \in PaymentPayloads(config)}

\* what the configured paymentValidator does when it is called
ValidatorOutcomes == {"accept", "reject", "throw"}

CustomValid_Always(returned) == TRUE

\* lines 143-144: customValid is truthy
CustomValid(returned) == returned = "accept"

\* error.message of the exception a throwing validator raises
ValidatorErrorMessage == "connect ECONNREFUSED 10.0.0.5:5432 (payments db)"

NoResponse == [status |-> 0]
NoResult == [type |-> "none"]

InitGate ==
  /\ gateConfig \in GateConfigs
  /\ gatePc = "idle"
  /\ gateReq = [header |-> [kind |-> "absent"], url |-> "/", payment |-> NoResult]
  /\ gateRes = NoResponse
  /\ nextCalls = 0
  /\ settleCalls = << >>
  /\ settlementResult = NoResult
  /\ validatorCalls = << >>

\* line 87: !paymentSignatureHeader
HeaderMissing(header) == header.kind \in {"absent", "empty"}

\* lines 93-96: Buffer.from(h, 'base64').toString('utf-8') then JSON.parse
DecodeThrows(header) == header.kind # "b64json"

\* line 104: paymentPayload.x402Version !== 2 (0 stands for undefined)
PayloadVersion(p) == IF p.type = "object" THEN p.x402Version ELSE 0

\* line 126: !settlementResult.success
SettlementFailed_Never(result) == FALSE

SettlementFailed(result) == Field(result, "success") # "true"

sendPaymentRequired_OtherHeader(url, config) ==
  [status |-> 402,
   paymentRequired |-> EncodeBase64Json([x402Version |-> 2]),
   paymentResponse |-> Undefined,
   body |-> [kind |-> "notice", notice |-> createPaymentRequiredResponse(url, config)]]

\* lines 214-229
sendPaymentRequired(url, config) ==
  [status |-> 402,
   paymentRequired |-> EncodeBase64Json(createPaymentRequiredResponse(url, config)),
   paymentResponse |-> Undefined,
   body |-> [kind |-> "notice", notice |-> createPaymentRequiredResponse(url, config)]]

ErrorResponse(status, error, message) ==
  [status |-> status,
   paymentRequired |-> Undefined,
   paymentResponse |-> Undefined,
   body |-> [kind |-> "error", error |-> error, message |-> message]]

\* lines 128-138
SettleFailureResponse(url, config, result) ==
  [status |-> 402,
   paymentRequired |-> EncodeBase64Json(createPaymentRequiredResponse(url, config)),
   paymentResponse |-> Undefined,
   body |-> [kind |-> "settle_error",
             error |-> OrElse(Field(result, "errorReason"), UNEXPECTED_SETTLE_ERROR),
             payer |-> Field(result, "payer"),
             transaction |-> Field(result, "transaction")]]

AdmitResponse_PartialHeader(result) ==
  [status |-> 200,
   paymentRequired |-> Undefined,
   paymentResponse |-> EncodeBase64Json([success |-> Field(result, "success")]),
   body |-> [kind |-> "handler"]]

\* lines 157-166
AdmitResponse(result) ==
  [status |-> 200,
   paymentRequired |-> Undefined,
   paymentResponse |-> EncodeBase64Json([success |-> Field(result, "success"),
                                         payer |-> Field(result, "payer"),
                                         transaction |-> Field(result, "transaction"),
                                         network |-> Field(result, "network")]),
   body |-> [kind |-> "handler"]]

\* the middleware returns with response res without calling next()
GateRespond(res) ==
  /\ gateRes' = res
  /\ gatePc' = "done"
  /\ UNCHANGED << gateConfig, gateReq, nextCalls >>

\* lines 152-168: attach the settlement, set payment-response, call next()
GateAdmit(result) ==
  /\ gateReq' = [gateReq EXCEPT !.payment = result]
  /\ gateRes' = AdmitResponse(result)
  /\ nextCalls' = nextCalls + 1
  /\ gatePc' = "done"
  /\ UNCHANGED gateConfig

\* lines 81-123: the middleware runs up to the settle call
GateHandle(url, header) ==
  /\ gatePc \in {"idle", "done"}
  /\ gateReq' = [header |-> header, url |-> url, payment |-> NoResult]
  /\ nextCalls' = 0
  /\ settlementResult' = NoResult
  /\ validatorCalls' = << >>
  /\ UNCHANGED gateConfig
  /\ IF HeaderMissing(header)
     THEN /\ gateRes' = sendPaymentRequired(url, gateConfig)
          /\ gatePc' = "done"
          /\ settleCalls' = << >>
     ELSE IF DecodeThrows(header)
     THEN /\ gateRes' = ErrorResponse(400, INVALID_PAYLOAD,
                          "Invalid payment-signature header: failed to decode")
          /\ gatePc' = "done"
          /\ settleCalls' = << >>
     ELSE IF header.value.type = "null"
     THEN \* reading .x402Version of null throws: the catch of line 169
          /\ gateRes' = ErrorResponse(500, UNEXPECTED_SETTLE_ERROR, "TypeError: null")
          /\ gatePc' = "done"
          /\ settleCalls' = << >>
     ELSE IF PayloadVersion(header.value) # 2
     THEN /\ gateRes' = ErrorResponse(400, INVALID_X402_VERSION, "Only x402 v2 is supported")
          /\ gatePc' = "done"
          /\ settleCalls' = << >>
     ELSE /\ gateRes' = NoResponse
          /\ gatePc' = "settling"
          /\ settleCalls' = << [paymentPayload |-> header.value,
                                paymentRequirements |-> BuildRequirements(gateConfig)] >>

\* a request arrives at the mounted paymentMiddleware
GateReceive(url, header) ==
  /\ gateApi = "paymentMiddleware"
  /\ UNCHANGED << limiter, fcVars, clientVars, gateApi, v1Gate >>
  /\ GateHandle(url, header)

\* lines 123-150: verifier.settle resolves
GateSettled(outcome) ==
  /\ gatePc = "settling"
  /\ UNCHANGED << limiter, fcVars, clientVars, gateApi, v1Gate >>
  /\ LET call == settleCalls[1]
         result == settle(call.paymentPayload,
                          [paymentRequirements |-> call.paymentRequirements], outcome)
     IN /\ settlementResult' = result
        /\ UNCHANGED settleCalls
        /\ IF result.type = "null"
           THEN \* reading .success of null throws: the catch of line 169
                /\ GateRespond(ErrorResponse(500, UNEXPECTED_SETTLE_ERROR, "TypeError: null"))
                /\ UNCHANGED validatorCalls
           ELSE IF SettlementFailed(result)
           THEN /\ GateRespond(SettleFailureResponse(gateReq.url, gateConfig, result))
                /\ UNCHANGED validatorCalls
           ELSE IF gateConfig.hasValidator
           THEN /\ validatorCalls' = << [payment |-> result, returned |-> "pending"] >>
                /\ gatePc' = "validating"
                /\ UNCHANGED << gateConfig, gateReq, gateRes, nextCalls >>
           ELSE /\ GateAdmit(result)
                /\ UNCHANGED validatorCalls

\* lines 143-168: config.paymentValidator resolves, returns falsy or throws
GateValidated(validator) ==
  /\ gatePc = "validating"
  /\ UNCHANGED << limiter, fcVars, clientVars, gateApi, v1Gate >>
  /\ validatorCalls' = << [validatorCalls[1] EXCEPT !.returned = validator] >>
  /\ UNCHANGED << settleCalls, settlementResult >>
  /\ CASE validator = "throw" ->
            GateRespond(ErrorResponse(500, UNEXPECTED_SETTLE_ERROR, ValidatorErrorMessage))
       [] ~ CustomValid(validator) ->
            GateRespond(ErrorResponse(402, "custom_validation_failed",
                                      "Custom validation rejected the payment"))
       [] OTHER -> GateAdmit(settlementResult)

conditionalPayment_AlwaysGate(shouldRequirePayment, url, header) ==
  GateHandle(url, header)

\* conditionalPayment, lines 254-262: what the returned handler does once
\* condition(req) has resolved
conditionalPayment(shouldRequirePayment, url, header) ==
  IF shouldRequirePayment THEN GateHandle(url, header)
  ELSE /\ gatePc \in {"idle", "done"}
       /\ gateReq' = [header |-> header, url |-> url, payment |-> NoResult]
       /\ nextCalls' = 1
       /\ gateRes' = NoResponse
       /\ gatePc' = "done"
       /\ settleCalls' = << >>
       /\ settlementResult' = NoResult
       /\ validatorCalls' = << >>
       /\ UNCHANGED gateConfig

\* a request arrives at a handler made by conditionalPayment; the call
\* record keeps what the condition answered for it
ConditionalRequestArrives ==
  \E shouldRequirePayment \in BOOLEAN : \E url \in {"/a", "/b"} :
    \E header \in SignatureHeaders(gateConfig) :
      /\ gateApi = "paymentMiddleware"
      /\ UNCHANGED << limiter, clientVars, gateApi, v1Gate, fcResult >>
      /\ fcCall' = [op |-> "conditionalPayment",
                    shouldRequirePayment |-> shouldRequirePayment]
      /\ conditionalPayment(shouldRequirePayment, url, header)

GateRequestArrives ==
  \E url \in {"/a", "/b"} : \E header \in SignatureHeaders(gateConfig) :
    GateReceive(url, header)

GateSettleReturns ==
  \E outcome \in SettleOutcomes : GateSettled(outcome)

GateValidatorReturns ==
  \E validator \in ValidatorOutcomes : GateValidated(validator)

(***************************************************************************)
(* middleware.ts: the legacy gates                                         *)
(***************************************************************************)
GateApis == {"paymentMiddleware", "paymentMiddlewareV1", "x402PaymentRequired"}

V1Configs ==
  [acceptUnconfirmed : BOOLEAN, hasValidator : BOOLEAN,
   tokenType : {Undefined}, tokenContract : {Undefined}]

V1DefaultConfig ==
  [acceptUnconfirmed |-> FALSE, hasValidator |-> FALSE,
   tokenType |-> Undefined, tokenContract |-> Undefined]

\* configurations of paymentMiddlewareV1 that name an asset
V1TokenConfigs ==
  [acceptUnconfirmed : {FALSE}, hasValidator : {FALSE},
   tokenType : {Undefined, "STX", "sBTC", "USDCx"},
   tokenContract : {Undefined, "ST1TOKEN.sbtc-token"}]

\* what a request to a legacy gate carries: x-payment, x-payment-txid
V1Requests ==
  [signedPayment : {Undefined, "0xsigned"}, txId : {Undefined, "0xtxid"},
   noticeAge : NoticeAges, tokenTypeHeader : {Undefined}]

\* requests that carry an x-payment-token-type header
V1TokenRequests ==
  [signedPayment : {Undefined, "0xsigned"}, txId : {Undefined, "0xtxid"},
   noticeAge : {0},
   tokenTypeHeader : {Undefined, "sbtc", "sBTC", "SBTC", "usdcx", "USDCx", "STX", "stx",
                      "BTC"}]

\* String.prototype.toLowerCase on the header values above
ToLowerCase(s) ==
  CASE s \in {"sbtc", "sBTC", "SBTC"} -> "sbtc"
    [] s \in {"usdcx", "USDCx"} -> "usdcx"
    [] s \in {"STX", "stx"} -> "stx"
    [] s = "BTC" -> "btc"
    [] OTHER -> s

V1TokenType_ConfigOnly(header, config) == OrElse(config.tokenType, "STX")

\* middleware.ts lines 37-45: the token type from the header or the config
V1TokenType(header, config) ==
  LET headerTokenType == IF header = Undefined THEN Undefined ELSE ToLowerCase(header)
  IN CASE headerTokenType = "sbtc" -> "sBTC"
       [] headerTokenType = "usdcx" -> "USDCx"
       [] OTHER -> OrElse(config.tokenType, "STX")

\* the options of a verifier call that concern the asset
NoOptions == [tokenType |-> Undefined, tokenContract |-> Undefined]

\* lines 51-57 (settleOptions), 62-69 and 311-316 (verification options)
V1Options(api, call, req, config) ==
  IF api # "paymentMiddlewareV1" THEN NoOptions
  ELSE IF call = "settlePayment"
  THEN [tokenType |-> V1TokenType(req.tokenTypeHeader, config), tokenContract |-> Undefined]
  ELSE [tokenType |-> config.tokenType, tokenContract |-> config.tokenContract]

\* line 137: config.expirationSeconds || 300
DefaultExpirationSeconds == 300

NoVerification == [type |-> "none"]

V1Idle(config) ==
  [config |-> config, pc |-> "idle",
   req |-> [signedPayment |-> Undefined, txId |-> Undefined, noticeAge |-> 0,
            tokenTypeHeader |-> Undefined],
   call |-> "none", options |-> NoOptions, verification |-> NoVerification, validator |-> "none",
   res |-> [status |-> 0], payment |-> NoVerification, nextCalls |-> 0]

\* lines 132-158 and 380-401: the 402 whose body is the payment request
V1PaymentRequired == [status |-> 402, error |-> Undefined, details |-> Undefined,
                      body |-> "payment request"]

V1Error(status, error, details) ==
  [status |-> status, error |-> error, details |-> details, body |-> "error"]

V1Respond(st, res) == [st EXCEPT !.pc = "done", !.res = res]

\* lines 108-118 and 351-353: attach the verification and call next()
V1Admit(st) ==
  [st EXCEPT !.pc = "done", !.payment = st.verification, !.nextCalls = @ + 1,
             !.res = [status |-> 200, error |-> Undefined, details |-> Undefined,
                      body |-> "handler"]]

\* lines 27-70 (paymentMiddlewareV1) and 301-322 (x402PaymentRequired):
\* the handler up to the call of the verifier
V1Receive(api, st, req) ==
  LET fresh == [V1Idle(st.config) EXCEPT !.req = req]
  IN IF api = "paymentMiddlewareV1"
     THEN IF ~ Truthy(req.signedPayment) /\ ~ Truthy(req.txId)
          THEN V1Respond(fresh, V1PaymentRequired)
          ELSE [fresh EXCEPT !.pc = "verifying",
                             !.call = IF Truthy(req.signedPayment)
                                      THEN "settlePayment" ELSE "verifyPayment",
                             !.options = V1Options(api, IF Truthy(req.signedPayment)
                                                        THEN "settlePayment"
                                                        ELSE "verifyPayment",
                                                   req, st.config)]
     ELSE IF ~ Truthy(req.txId)
          THEN V1Respond(fresh, V1PaymentRequired)
          ELSE [fresh EXCEPT !.pc = "verifying", !.call = "verifyPayment",
                             !.options = V1Options(api, "verifyPayment", req, st.config)]

\* line 81 (paymentMiddlewareV1) and line 334 (x402PaymentRequired)
V1PendingRejected_Always(api, config, verification) ==
  verification.status = "pending"

V1PendingRejected(api, config, verification) ==
  /\ verification.status = "pending"
  /\ api = "x402PaymentRequired" => ~ config.acceptUnconfirmed

\* lines 72-118 and 324-353: from the verifier's result to the validator
\* call, or to the end
V1Verified(api, st, verification) ==
  LET seen == [st EXCEPT !.verification = verification]
  IN IF verification.type = "throw"
     THEN V1Respond(seen, V1Error(500, "Payment settlement error", verification.message))
     ELSE IF verification.isValid # "true"
     THEN V1Respond(seen, V1Error(402, "Invalid payment", verification.validationError))
     ELSE IF V1PendingRejected(api, st.config, verification)
     THEN V1Respond(seen, V1Error(402, "Payment not yet confirmed", "Please wait"))
     ELSE IF verification.status = "failed"
     THEN V1Respond(seen, V1Error(402, "Payment failed", "Transaction failed on blockchain"))
     ELSE IF st.config.hasValidator
     THEN [seen EXCEPT !.pc = "validating", !.validator = "pending"]
     ELSE V1Admit(seen)

\* lines 97-118 and 343-353: the validator resolves, returns falsy or throws
V1Validated(st, validator) ==
  LET seen == [st EXCEPT !.validator = validator]
  IN CASE validator = "throw" ->
            V1Respond(seen, V1Error(500, "Payment settlement error", ValidatorErrorMessage))
       [] ~ CustomValid(validator) ->
            V1Respond(seen, V1Error(402, "Payment validation failed",
                                    "Custom validation rejected the payment"))
       [] OTHER -> V1Admit(seen)

V1RequestArrives ==
  /\ gateApi # "paymentMiddleware"
  /\ v1Gate.pc \in {"idle", "done"}
  /\ \E req \in V1Requests : v1Gate' = V1Receive(gateApi, v1Gate, req)
  /\ UNCHANGED << gateConfig, gatePc, gateReq, gateRes, nextCalls, settleCalls,
                  settlementResult, validatorCalls, gateApi >>
  /\ UNCHANGED << limiter, fcVars, clientVars >>

\* a request with a token type header arrives at paymentMiddlewareV1
V1TokenRequestArrives ==
  /\ gateApi = "paymentMiddlewareV1"
  /\ v1Gate.pc \in {"idle", "done"}
  /\ \E req \in V1TokenRequests : v1Gate' = V1Receive(gateApi, v1Gate, req)
  /\ UNCHANGED << gateConfig, gatePc, gateReq, gateRes, nextCalls, settleCalls,
                  settlementResult, validatorCalls, gateApi >>
  /\ UNCHANGED << limiter, fcVars, clientVars >>

V1VerifierReturns ==
  /\ gateApi # "paymentMiddleware"
  /\ v1Gate.pc = "verifying"
  /\ \/ /\ v1Gate.call = "settlePayment"
        /\ \E outcome \in LegacySettleOutcomes :
             v1Gate' = V1Verified(gateApi, v1Gate,
                                  settlePayment(v1Gate.req.signedPayment,
                                                v1Gate.options, outcome))
     \/ /\ v1Gate.call = "verifyPayment"
        /\ \E outcome \in LegacyVerifyOutcomes :
             v1Gate' = V1Verified(gateApi, v1Gate,
                                  verifyPayment(v1Gate.req.txId,
                                                v1Gate.options, outcome))
  /\ UNCHANGED << gateConfig, gatePc, gateReq, gateRes, nextCalls, settleCalls,
                  settlementResult, validatorCalls, gateApi >>
  /\ UNCHANGED << limiter, fcVars, clientVars >>

V1ValidatorReturns ==
  /\ gateApi # "paymentMiddleware"
  /\ v1Gate.pc = "validating"
  /\ \E validator \in ValidatorOutcomes : v1Gate' = V1Validated(v1Gate, validator)
  /\ UNCHANGED << gateConfig, gatePc, gateReq, gateRes, nextCalls, settleCalls,
                  settlementResult, validatorCalls, gateApi >>
  /\ UNCHANGED << limiter, fcVars, clientVars >>

(***************************************************************************)
(* interceptor-v2.ts: the axios 402 handler                                *)
(***************************************************************************)
NullValue == [type |-> "null"]
NoOption == [network |-> "none"]

\* opt.network.startsWith('stacks:')
IsStacksNetwork(network) ==
  network \in {STACKS_MAINNET, STACKS_TESTNET, "stacks:999"}

\* the payment options a server may offer
Option(network, asset) ==
  [scheme |-> "exact", network |-> network, amount |-> "100000", asset |-> asset,
   payTo |-> "SP_MERCHANT", maxTimeoutSeconds |-> 300]

Options ==
  {Option(STACKS_MAINNET, "STX"), Option(STACKS_TESTNET, "sBTC"),
   Option("stacks:999", "STX"), Option("eip155:8453", "USDC")}

\* options the signer cannot sign: an amount that is no integer, a payTo
\* that is no address
UnsignableOptions ==
  {[Option(STACKS_MAINNET, "STX") EXCEPT !.amount = "abc"],
   [Option(STACKS_TESTNET, "STX") EXCEPT !.payTo = "not-an-address"],
   [Option(STACKS_TESTNET, "sBTC") EXCEPT !.amount = "abc"],
   [Option(STACKS_MAINNET, "sBTC") EXCEPT !.payTo = "not-an-address"]}

\* options in the third asset the signer knows
UsdcxOptions == {Option(STACKS_MAINNET, "USDCx"), Option(STACKS_TESTNET, "USDCx")}

AcceptLists(n) == UNION {[1..k -> Options] : k \in 0..n}

ResourceObject == [type |-> "object", url |-> "https://api.example.com/premium"]
NoResource == [type |-> "undefined"]

NoticeOf(version, resource, accepts) ==
  [type |-> "object", x402Version |-> version, resource |-> resource, accepts |-> accepts]

ListOf(items) == [kind |-> "list", items |-> items]

\* notices with version 2, a resource object and a non-empty accepts list
WellFormedNotices ==
  {NoticeOf(2, ResourceObject, ListOf(l)) : l \in AcceptLists(MaxAccepts) \ {<< >>}}

\* wrong version tag, resource not an object, accepts missing, not a list, empty
MalformedNotices ==
  {NoticeOf(1, ResourceObject, ListOf(l)) : l \in AcceptLists(1) \ {<< >>}}
  \cup {NoticeOf(2, NoResource, ListOf(l)) : l \in AcceptLists(1) \ {<< >>}}
  \cup {NoticeOf(2, ResourceObject, a) :
          a \in {[kind |-> "missing"], [kind |-> "string"], ListOf(<< >>)}}

Notices == WellFormedNotices \cup MalformedNotices

AbsentData == [type |-> "undefined"]

SmallNotices ==
  MalformedNotices \cup
  {NoticeOf(2, ResourceObject, ListOf(l)) : l \in AcceptLists(1) \ {<< >>}}

\* the 402 responses of a server: a notice in the payment-required header,
\* or in the body, or in both, or a header that does not decode
Responses402 ==
  {[status |-> 402, header |-> EncodeBase64Json(n), data |-> AbsentData] : n \in Notices}
  \cup {[status |-> 402, header |-> [kind |-> "absent"], data |-> d] :
          d \in Notices \cup {AbsentData}}
  \cup {[status |-> 402, header |-> EncodeBase64Json(n),
         data |-> NoticeOf(2, ResourceObject, ListOf(<< Option(STACKS_TESTNET, "STX") >>))] :
          n \in SmallNotices}
  \cup {[status |-> 402, header |-> h, data |-> d] :
          h \in {[kind |-> "garbage"], EncodeBase64Json(NullValue)},
          d \in SmallNotices \cup {AbsentData}}
  \cup {[status |-> 402,
         header |-> EncodeBase64Json(NoticeOf(2, ResourceObject, ListOf(<< o >>))),
         data |-> AbsentData] : o \in UnsignableOptions \cup UsdcxOptions}

OtherResponses ==
  {[status |-> st, header |-> [kind |-> "absent"], data |-> AbsentData] : st \in {200, 500}}

\* lines 71-80
decodePaymentRequired(header) ==
  IF header.kind = "b64json" THEN header.value ELSE NullValue

\* lines 186-197
isValidPaymentRequestV2(data) ==
  /\ data.type = "object"
  /\ data.x402Version = 2
  /\ data.resource.type = "object"
  /\ data.accepts.kind = "list"
  /\ Len(data.accepts.items) > 0

\* lines 208-217: the callback of accepts.find
OptionMatches(opt, acct) ==
  IF ~ IsStacksNetwork(opt.network) THEN "no"
  ELSE IF networkFromCAIP2(opt.network) = "throw" THEN "throw"
  ELSE IF networkFromCAIP2(opt.network) = acct.network THEN "yes" ELSE "no"

RECURSIVE FindOption(_, _, _)
FindOption(items, i, acct) ==
  IF i > Len(items) THEN NoOption
  ELSE CASE OptionMatches(items[i], acct) = "yes" -> items[i]
         [] OptionMatches(items[i], acct) = "throw" -> Thrown("Unsupported network")
         [] OTHER -> FindOption(items, i + 1, acct)

\* lines 203-220
selectPaymentOption(accepts, acct) == FindOption(accepts, 1, acct)

\* utils.ts: the inverse of assetToV2
assetFromV2(asset) ==
  CASE asset = "STX" -> [tokenType |-> "STX", tokenContract |-> Undefined]
    [] asset = "sBTC" -> [tokenType |-> "sBTC", tokenContract |-> Undefined]
    [] asset = "USDCx" -> [tokenType |-> "USDCx", tokenContract |-> Undefined]
    [] OTHER -> [tokenType |-> "throw", tokenContract |-> Undefined]

\* lines 100-121
getTokenContractForAsset(asset, network) ==
  IF assetFromV2(asset).tokenContract # Undefined THEN assetFromV2(asset).tokenContract
  ELSE IF assetFromV2(asset).tokenType = "sBTC"
  THEN IF network = "mainnet" THEN "SM3VDXK3WZZSA84XXFKAFAF15NNZX32CTSG82JFQ4.sbtc-token"
       ELSE "ST1F7QA2MDF17S807EPA36TSS8AMEFY4KA9TVGWXT.sbtc-token"
  ELSE IF assetFromV2(asset).tokenType = "USDCx"
  THEN IF network = "mainnet" THEN "SP120SBRBQJ00MCWS7TM5R8WJNTTKD5K0HFRC2CNE.usdcx"
       ELSE "ST1PQHQKV0RJXZFY1DGX8MNSNYVE3VGZJSRTPGZGM.usdcx"
  ELSE Undefined

\* what the transaction builder of @stacks/transactions does when called
StacksOutcomes == {"ok", "network error"}

\* BigInt(string) throws a SyntaxError for a string that is no integer
BigIntThrows(v) == v \notin {"100000"}

\* principalCV(address) and the builders throw for a string that is no
\* Stacks address
IsPrincipal(address) == address # "not-an-address"

\* a token transfer calls no contract function
NoCall == [functionName |-> Undefined, functionArgs |-> << >>]

\* functionName and functionArgs of the SIP-010 transfer: uintCV(amount),
\* principalCV(sender), principalCV(recipient), someCV(memo)
TransferCall(amount, recipient) ==
  [functionName |-> "transfer",
   functionArgs |-> << [cv |-> "uint", of |-> amount],
                       [cv |-> "principal", of |-> "sender"],
                       [cv |-> "principal", of |-> recipient],
                       [cv |-> "some", of |-> "memo"] >>]

\* transaction.serialize() then Buffer.from(..).toString('hex')
SerializeHex(tx) == [hex |-> tx]

signPaymentV2_Broadcasting(paymentRequirements, acct, dep) ==
  [type |-> "ok",
   calls |-> {"makeSTXTokenTransfer", "broadcastTransaction"},
   signedTransaction |-> SerializeHex([kind |-> "token_transfer",
                                       network |-> networkFromCAIP2(paymentRequirements.network),
                                       recipient |-> paymentRequirements.payTo,
                                       amount |-> paymentRequirements.amount,
                                       contract |-> Undefined, call |-> NoCall])]

\* lines 127-181: the signed transaction in hex, or the exception thrown,
\* with the library functions called on the way
signPaymentV2(paymentRequirements, acct, dep) ==
  LET tokenType == assetFromV2(paymentRequirements.asset).tokenType
      v1Network == networkFromCAIP2(paymentRequirements.network)
      tokenContract == getTokenContractForAsset(paymentRequirements.asset, v1Network)
  IN IF BigIntThrows(paymentRequirements.amount)
     THEN [type |-> "throw", message |-> "SyntaxError", calls |-> {}]
     ELSE IF tokenType = "throw"
     THEN [type |-> "throw", message |-> "Malformed asset", calls |-> {}]
     ELSE IF v1Network = "throw"
     THEN [type |-> "throw", message |-> "Unsupported network", calls |-> {}]
     ELSE IF tokenType \in {"sBTC", "USDCx"}
     THEN IF tokenContract = Undefined
          THEN [type |-> "throw", message |-> "Token contract required", calls |-> {}]
          ELSE IF ~ IsPrincipal(paymentRequirements.payTo)
          THEN [type |-> "throw", message |-> "Invalid c32 address", calls |-> {}]
          ELSE IF dep # "ok"
          THEN [type |-> "throw", message |-> dep, calls |-> {"makeContractCall"}]
          ELSE [type |-> "ok",
                calls |-> {"makeContractCall"},
                signedTransaction |-> SerializeHex([kind |-> "contract_call",
                                                    network |-> v1Network,
                                                    recipient |-> paymentRequirements.payTo,
                                                    amount |-> paymentRequirements.amount,
                                                    contract |-> tokenContract,
                                                    call |-> TransferCall(paymentRequirements.amount,
                                                                          paymentRequirements.payTo)])]
     ELSE IF ~ IsPrincipal(paymentRequirements.payTo)
     THEN [type |-> "throw", message |-> "Invalid c32 address",
           calls |-> {"makeSTXTokenTransfer"}]
     ELSE IF dep # "ok"
     THEN [type |-> "throw", message |-> dep, calls |-> {"makeSTXTokenTransfer"}]
     ELSE [type |-> "ok",
           calls |-> {"makeSTXTokenTransfer"},
           signedTransaction |-> SerializeHex([kind |-> "token_transfer",
                                               network |-> v1Network,
                                               recipient |-> paymentRequirements.payTo,
                                               amount |-> paymentRequirements.amount,
                                               contract |-> Undefined, call |-> NoCall])]

\* lines 265: paymentAttempted.has(originalRequest)
AlreadyAttempted_Never(config) == FALSE

AlreadyAttempted(config) == config \in paymentAttempted

\* the body first, then the header
ReadPaymentRequired_BodyFirst(response) ==
  IF isValidPaymentRequestV2(response.data)
  THEN response.data
  ELSE IF response.header.kind \notin {"absent", "empty"}
  THEN decodePaymentRequired(response.header)
  ELSE NullValue

\* lines 272-284: header first, then the body
ReadPaymentRequired(response) ==
  IF response.header.kind \notin {"absent", "empty"}
     /\ decodePaymentRequired(response.header).type # "null"
  THEN decodePaymentRequired(response.header)
  ELSE IF isValidPaymentRequestV2(response.data)
  THEN response.data
  ELSE NullValue

\* how a 402 response carried its notice, for the record of a handler run
NoticeClass(value) ==
  IF value.type # "object" THEN "absent"
  ELSE IF /\ value.x402Version = 2
          /\ value.resource.type = "object"
          /\ value.accepts.kind = "list"
          /\ value.accepts.items # << >>
  THEN "wellformed" ELSE "malformed"

HeaderClass(header) ==
  CASE header.kind \in {"absent", "empty"} -> "absent"
    [] header.kind = "b64json" /\ header.value.type = "object" -> NoticeClass(header.value)
    [] OTHER -> "undecodable"

\* the accepts list a value offers, when it is an object that has one
AcceptsOf(value) ==
  IF value.type = "object" /\ value.accepts.kind = "list" THEN value.accepts.items ELSE << >>

NoRun ==
  [ran |-> FALSE, config |-> 0, status |-> 0, attempted |-> FALSE,
   headerClass |-> "absent", dataClass |-> "absent",
   headerAccepts |-> << >>, dataAccepts |-> << >>, accepts |-> << >>,
   resource |-> NoResource,
   selected |-> NoOption, signerCalled |-> FALSE, reissued |-> FALSE,
   payload |-> NullValue, calls |-> {}, error |-> [msg |-> "none"]]

ErrorOf(msg) == [msg |-> msg]

SigningFailedError_Raw(reason) == [msg |-> reason, reason |-> reason]

\* lines 324-330
SigningFailedError(reason) == [msg |-> "Payment signing failed:", reason |-> reason]

PaymentPayloadOf_FirstOffered(paymentRequired, selectedOption, signedTransaction) ==
  [type |-> "object",
   x402Version |-> 2,
   resource |-> paymentRequired.resource,
   accepted |-> paymentRequired.accepts.items[1],
   payload |-> [transaction |-> signedTransaction]]

\* lines 306-313
PaymentPayloadOf(paymentRequired, selectedOption, signedTransaction) ==
  [type |-> "object",
   x402Version |-> 2,
   resource |-> paymentRequired.resource,
   accepted |-> selectedOption,
   payload |-> [transaction |-> signedTransaction]]

\* lines 256-331: what one run of the rejected-response handler does with
\* error.config = config and error.response = response
HandlerRun(config, response, dep) ==
  LET base == [NoRun EXCEPT !.ran = TRUE, !.config = config, !.status = response.status,
                            !.attempted = (config \in paymentAttempted),
                            !.headerClass = HeaderClass(response.header),
                            !.dataClass = NoticeClass(response.data),
                            !.headerAccepts = AcceptsOf(decodePaymentRequired(response.header)),
                            !.dataAccepts = AcceptsOf(response.data)]
      paymentRequired == ReadPaymentRequired(response)
      selectedOption == selectPaymentOption(paymentRequired.accepts.items, account)
      signResult == signPaymentV2(selectedOption, account, dep)
      seen == [base EXCEPT !.accepts = paymentRequired.accepts.items,
                           !.resource = paymentRequired.resource]
  IN IF response.status # 402
     THEN [base EXCEPT !.error = ErrorOf("Request failed with status code")]
     ELSE IF AlreadyAttempted(config)
     THEN [base EXCEPT !.error = ErrorOf("Payment already attempted for this request")]
     ELSE IF paymentRequired.type = "null"
     THEN [base EXCEPT !.error = ErrorOf("Invalid x402 v2 payment request from server")]
     ELSE IF paymentRequired.accepts.kind # "list"
     THEN \* accepts.find is not a function
          [base EXCEPT !.error = ErrorOf("TypeError")]
     ELSE IF "type" \in DOMAIN selectedOption
     THEN \* networkFromCAIP2 threw inside the callback of find
          [seen EXCEPT !.error = ErrorOf(selectedOption.message)]
     ELSE IF selectedOption = NoOption
     THEN [seen EXCEPT !.error =
             [msg |-> "No compatible payment option found. Available networks:",
              networks |-> [i \in 1..Len(paymentRequired.accepts.items) |->
                              paymentRequired.accepts.items[i].network]]]
     ELSE IF signResult.type = "throw"
     THEN [seen EXCEPT !.selected = selectedOption, !.signerCalled = TRUE,
                       !.calls = signResult.calls,
                       !.error = SigningFailedError(signResult.message)]
     ELSE [seen EXCEPT !.selected = selectedOption, !.signerCalled = TRUE,
                       !.calls = signResult.calls,
                       !.reissued = TRUE,
                       !.payload = PaymentPayloadOf(paymentRequired, selectedOption,
                                                    signResult.signedTransaction)]

InitAxios ==
  /\ account \in [network : {"mainnet", "testnet"}]
  /\ clonesConfig \in BOOLEAN
  /\ configs = << >>
  /\ paymentAttempted = {}
  /\ inflight = 0
  /\ sentHeader = [kind |-> "absent"]
  /\ callStatus = "idle"
  /\ callError = [msg |-> "none"]
  /\ callSigns = 0
  /\ callRetries = 0
  /\ signedFor = [c \in 1..MaxConfigs |-> 0]
  /\ lastRun = NoRun
  /\ stacksCalls = {}

\* the application calls api.request(config): axios hands the handler the
\* config object it made for the request, or the caller's own object
AxiosCall ==
  /\ clientApi = "axios"
  /\ callStatus # "awaiting"
  /\ \/ /\ Len(configs) < MaxConfigs
        /\ configs' = Append(configs, FALSE)
        /\ inflight' = Len(configs) + 1
     \/ /\ ~ clonesConfig
        /\ \E c \in 1..Len(configs) : inflight' = c
        /\ UNCHANGED configs
  /\ sentHeader' = [kind |-> "absent"]
  /\ callStatus' = "awaiting"
  /\ callError' = [msg |-> "none"]
  /\ callSigns' = 0
  /\ callRetries' = 0
  /\ lastRun' = NoRun
  /\ UNCHANGED << clientApi, account, clonesConfig, paymentAttempted, signedFor, stacksCalls >>
  /\ UNCHANGED << limiter, gateVars, fcVars, legacy >>

\* line 253: a 2xx response passes through
AxiosFulfilled ==
  /\ clientApi = "axios"
  /\ callStatus = "awaiting"
  /\ callStatus' = "resolved"
  /\ inflight' = 0
  /\ UNCHANGED << clientApi, account, clonesConfig, configs, paymentAttempted, sentHeader,
                  callError, callSigns, callRetries, signedFor, lastRun, stacksCalls >>
  /\ UNCHANGED << limiter, gateVars, fcVars, legacy >>

\* lines 256-331: the request failed; the handler runs to its end
AxiosRejected(run) ==
  /\ lastRun' = run
  /\ paymentAttempted' = IF run.status = 402
                         THEN paymentAttempted \cup {inflight}
                         ELSE paymentAttempted
  /\ callSigns' = IF run.signerCalled THEN callSigns + 1 ELSE callSigns
  /\ signedFor' = IF run.signerCalled
                  THEN [signedFor EXCEPT ![inflight] = @ + 1]
                  ELSE signedFor
  /\ stacksCalls' = stacksCalls \cup
                    {[by |-> "wrapAxiosWithPayment", op |-> f] : f \in run.calls}
  /\ IF run.reissued
     THEN \* lines 319-323: set the header, axiosInstance.request(originalRequest)
          /\ clonesConfig => Len(configs) < MaxConfigs
          /\ configs' = IF clonesConfig
                        THEN Append([configs EXCEPT ![inflight] = TRUE], TRUE)
                        ELSE [configs EXCEPT ![inflight] = TRUE]
          /\ inflight' = IF clonesConfig THEN Len(configs) + 1 ELSE inflight
          /\ sentHeader' = EncodeBase64Json(run.payload)
          /\ callRetries' = callRetries + 1
          /\ UNCHANGED << callStatus, callError >>
     ELSE /\ callStatus' = "rejected"
          /\ callError' = run.error
          /\ inflight' = 0
          /\ UNCHANGED << configs, callRetries, sentHeader >>
  /\ UNCHANGED << clientApi, account, clonesConfig >>
  /\ UNCHANGED << limiter, gateVars, fcVars, legacy >>

\* the builder's outcome matters only to a run that reaches the signer
DepChoices(response) ==
  IF HandlerRun(inflight, response, "ok").signerCalled THEN StacksOutcomes ELSE {"ok"}

AxiosResponseError ==
  /\ clientApi = "axios"
  /\ callStatus = "awaiting"
  /\ callSigns < MaxConfigs
  /\ \E response \in Responses402 \cup {r \in OtherResponses : r.status # 200} :
       \E dep \in DepChoices(response) :
         \E run \in {HandlerRun(inflight, response, dep)} : AxiosRejected(run)

(***************************************************************************)
(* client.ts: X402PaymentClient                                            *)
(***************************************************************************)
\* line 56-58
getNetworkInstance(network) ==
  IF network = "mainnet" THEN "StacksMainnet" ELSE "StacksTestnet"

\* the 402 bodies a legacy server can answer with
LegacyNotices ==
  [type : {"object"},
   maxAmountRequired : {"100000", "abc", Undefined},
   payTo : {"ST1RECIPIENT"},
   network : {"mainnet", "testnet", "devnet"},
   nonce : {"n-1"},
   expiresAt : {"past", "future", "not a date"},
   tokenType : {Undefined, "STX", "sBTC", "USDCx"},
   tokenContract : {Undefined, "ST1TOKEN.sbtc-token"}]

\* the notices that pass isValidPaymentRequest and have not expired
ValidLegacyNotices ==
  {n \in LegacyNotices : /\ n.maxAmountRequired # Undefined
                         /\ n.network \in {"mainnet", "testnet"}
                         /\ n.expiresAt = "future"}

LegacyResponses ==
  [status : {402}, data : LegacyNotices \cup {NullValue, AbsentData}]
    \cup [status : {500}, data : {AbsentData}]

\* lines 619-630; typeof null is 'object', so a null body reaches the
\* property read and that throws
isValidPaymentRequest(request) ==
  IF request.type = "null" THEN "TypeError"
  ELSE IF /\ request.type = "object"
          /\ request.maxAmountRequired # Undefined
          /\ request.network \in {"mainnet", "testnet"}
  THEN "true" ELSE "false"

\* the hex string of no transaction: '' or undefined
NoHex(what) ==
  [hex |-> [kind |-> what, network |-> Undefined, recipient |-> Undefined,
            amount |-> Undefined, contract |-> Undefined, call |-> NoCall]]

SignFailure(message, calls) ==
  [success |-> FALSE, signedTransaction |-> NoHex("empty"), error |-> message, calls |-> calls]

\* lines 134-178
signSTXTransfer(details, dep) ==
  IF dep # "ok" THEN SignFailure(dep, {"makeSTXTokenTransfer"})
  ELSE [success |-> TRUE,
        signedTransaction |-> SerializeHex([kind |-> "token_transfer",
                                            network |-> getNetworkInstance(details.network),
                                            recipient |-> details.recipient,
                                            amount |-> details.amount,
                                            contract |-> Undefined, call |-> NoCall]),
        error |-> Undefined,
        calls |-> {"makeSTXTokenTransfer"}]

\* lines 183-244 (signSBTCTransfer) and 392-453 (signUSDCxTransfer)
signSBTCTransfer(details, dep) ==
  IF details.tokenContract = Undefined
  THEN SignFailure("Token contract required for sBTC transfers", {})
  ELSE IF dep # "ok" THEN SignFailure(dep, {"makeContractCall"})
  ELSE [success |-> TRUE,
        signedTransaction |-> SerializeHex([kind |-> "contract_call",
                                            network |-> getNetworkInstance(details.network),
                                            recipient |-> details.recipient,
                                            amount |-> details.amount,
                                            contract |-> details.tokenContract,
                                            call |-> TransferCall(details.amount,
                                                                  details.recipient)]),
        error |-> Undefined,
        calls |-> {"makeContractCall"}]

\* lines 392-453
signUSDCxTransfer(details, dep) ==
  IF details.tokenContract = Undefined
  THEN SignFailure("Token contract required for USDCx transfers", {})
  ELSE signSBTCTransfer(details, dep)

\* lines 249-303: build, then broadcastTransaction
sendSTXTransfer(details, dep) ==
  IF dep # "ok" THEN SignFailure(dep, {"makeSTXTokenTransfer"})
  ELSE [signSTXTransfer(details, dep) EXCEPT
          !.calls = {"makeSTXTokenTransfer", "broadcastTransaction"}]

\* lines 308-383
sendSBTCTransfer(details, dep) ==
  IF ~ signSBTCTransfer(details, dep).success THEN signSBTCTransfer(details, dep)
  ELSE [signSBTCTransfer(details, dep) EXCEPT
          !.calls = {"makeContractCall", "broadcastTransaction"}]

\* lines 70-78
PaymentDetailsOf(paymentRequest) ==
  [recipient |-> paymentRequest.payTo,
   amount |-> paymentRequest.maxAmountRequired,
   network |-> paymentRequest.network,
   tokenType |-> OrElse(paymentRequest.tokenType, "STX"),
   tokenContract |-> paymentRequest.tokenContract]

signPayment_AlwaysNative(paymentRequest, dep) ==
  signSTXTransfer(PaymentDetailsOf(paymentRequest), dep)

\* lines 64-93
signPayment(paymentRequest, dep) ==
  IF BigIntThrows(paymentRequest.maxAmountRequired) THEN SignFailure("SyntaxError", {})
  ELSE IF OrElse(paymentRequest.tokenType, "STX") = "sBTC"
  THEN signSBTCTransfer(PaymentDetailsOf(paymentRequest), dep)
  ELSE IF OrElse(paymentRequest.tokenType, "STX") = "USDCx"
  THEN signUSDCxTransfer(PaymentDetailsOf(paymentRequest), dep)
  ELSE signSTXTransfer(PaymentDetailsOf(paymentRequest), dep)

\* lines 99-129
makePayment(paymentRequest, dep) ==
  IF BigIntThrows(paymentRequest.maxAmountRequired) THEN SignFailure("SyntaxError", {})
  ELSE IF OrElse(paymentRequest.tokenType, "STX") = "sBTC"
  THEN sendSBTCTransfer(PaymentDetailsOf(paymentRequest), dep)
  ELSE sendSTXTransfer(PaymentDetailsOf(paymentRequest), dep)

\* the headers added to a request by lines 563-567
NoTransaction == NoHex("undefined")

NoPayment == [payment |-> NoTransaction, tokenType |-> Undefined]

NoNotice == [network |-> Undefined, expiresAt |-> Undefined, tokenType |-> Undefined]

IdleLegacy(network) ==
  [network |-> network, pc |-> "idle", op |-> "none", maxRetries |-> 0, attempt |-> 0,
   requests |-> 0, signs |-> 0, sent |-> NoPayment, paidRefused |-> FALSE,
   signsAfterRefusal |-> 0, notice |-> NoNotice, signed |-> NoTransaction,
   error |-> "none"]

InitLegacy == legacy \in {IdleLegacy(n) : n \in {"mainnet", "testnet"}}

\* lines 543-576: the call starts and sends its first request, without payment
LegacyCall ==
  /\ clientApi = "legacy"
  /\ legacy.pc # "awaiting"
  /\ \E maxRetries \in 0..MaxRetriesBound :
       legacy' = [IdleLegacy(legacy.network) EXCEPT
                    !.pc = "awaiting", !.op = "requestWithPayment",
                    !.maxRetries = maxRetries, !.requests = 1]
  /\ UNCHANGED << clientApi, axiosVars, stacksCalls >>
  /\ UNCHANGED << limiter, gateVars, fcVars >>

\* line 576: a 2xx response ends the call with response.data
LegacyFulfilled ==
  /\ clientApi = "legacy"
  /\ legacy.pc = "awaiting"
  /\ legacy' = [legacy EXCEPT !.pc = "returned"]
  /\ UNCHANGED << clientApi, axiosVars, stacksCalls >>
  /\ UNCHANGED << limiter, gateVars, fcVars >>

Expired_Never(expiresAt) == FALSE

\* lines 587-590: new Date(paymentRequest.expiresAt) < new Date(); the
\* comparison with an Invalid Date is false
Expired(expiresAt) == expiresAt = "past"

LoopContinues_OneMore(attempt, maxRetries) == attempt <= maxRetries + 1

\* line 556: while (attempt <= maxRetries)
LoopContinues(attempt, maxRetries) == attempt <= maxRetries

LegacyThrow(st, message) == [st EXCEPT !.pc = "thrown", !.error = message]

\* lines 577-613: the catch block of one loop iteration, then the loop test
\* and either the next request or the throw after the loop
OnRequestError(st, response, dep) ==
  LET paymentRequest == response.data
      refused == st.sent.payment # NoTransaction
      seen == [st EXCEPT !.paidRefused = @ \/ refused]
      signResult == signPayment(paymentRequest, dep)
      signedSt == [seen EXCEPT
                     !.signs = @ + 1,
                     !.signsAfterRefusal = IF refused THEN @ + 1 ELSE @,
                     !.notice = [network |-> paymentRequest.network,
                                 expiresAt |-> paymentRequest.expiresAt,
                                 tokenType |-> paymentRequest.tokenType]]
  IN IF response.status # 402 THEN LegacyThrow(st, "Request failed with status code")
     ELSE IF isValidPaymentRequest(paymentRequest) = "TypeError"
     THEN LegacyThrow(seen, "TypeError")
     ELSE IF isValidPaymentRequest(paymentRequest) = "false"
     THEN LegacyThrow(seen, "Invalid x402 payment request from server")
     ELSE IF Expired(paymentRequest.expiresAt)
     THEN LegacyThrow(seen, "Payment request has expired")
     ELSE IF ~ signResult.success
     THEN LegacyThrow(signedSt, "Payment signing failed:")
     ELSE IF LoopContinues(st.attempt + 1, st.maxRetries)
     THEN [signedSt EXCEPT
             !.attempt = @ + 1,
             !.signed = signResult.signedTransaction,
             !.requests = @ + 1,
             !.sent = [payment |-> signResult.signedTransaction,
                       tokenType |-> OrElse(paymentRequest.tokenType, "STX")]]
     ELSE [signedSt EXCEPT
             !.attempt = @ + 1,
             !.signed = signResult.signedTransaction,
             !.pc = "thrown",
             !.error = "Max retries exceeded for payment request"]

\* the @stacks/transactions functions the catch block reaches
OnRequestErrorCalls(response, dep) ==
  IF /\ response.status = 402
     /\ isValidPaymentRequest(response.data) = "true"
     /\ ~ Expired(response.data.expiresAt)
  THEN signPayment(response.data, dep).calls
  ELSE {}

LegacyResponseError ==
  /\ clientApi = "legacy"
  /\ legacy.pc = "awaiting"
  /\ \E response \in LegacyResponses, dep \in StacksOutcomes :
       /\ legacy' = OnRequestError(legacy, response, dep)
       /\ stacksCalls' = stacksCalls \cup
                         {[by |-> "requestWithPayment", op |-> f] :
                            f \in OnRequestErrorCalls(response, dep)}
  /\ UNCHANGED << clientApi, axiosVars >>
  /\ UNCHANGED << limiter, gateVars, fcVars >>

\* the application calls the deprecated makePayment with a notice it holds
LegacyMakePayment ==
  /\ clientApi = "legacy"
  /\ legacy.pc # "awaiting"
  /\ \E paymentRequest \in ValidLegacyNotices, dep \in StacksOutcomes :
       /\ legacy' = [IdleLegacy(legacy.network) EXCEPT
                       !.pc = "returned", !.op = "makePayment",
                       !.signed = makePayment(paymentRequest, dep).signedTransaction]
       /\ stacksCalls' = stacksCalls \cup
                         {[by |-> "makePayment", op |-> f] :
                            f \in makePayment(paymentRequest, dep).calls}
  /\ UNCHANGED << clientApi, axiosVars >>
  /\ UNCHANGED << limiter, gateVars, fcVars >>

(***************************************************************************)
(* One call of a signer and what it gave back                              *)
(***************************************************************************)
\* the asset symbols a requirement may carry: the three the code names
\* and one it does not
AssetSymbols == {"STX", "sBTC", "USDCx", "USDC"}

SignerRequirements ==
  {[Option(n, a) EXCEPT !.amount = amt, !.payTo = to] :
     n \in {STACKS_MAINNET, STACKS_TESTNET}, a \in AssetSymbols,
     amt \in {"100000", "abc"}, to \in {"SP_MERCHANT", "not-an-address"}}

SignerNotices ==
  [type : {"object"},
   maxAmountRequired : {"100000", "abc"},
   payTo : {"ST1RECIPIENT"},
   network : {"mainnet", "testnet"},
   nonce : {"n-1"},
   expiresAt : {"future"},
   tokenType : {Undefined, "STX", "sBTC", "USDCx", "USDC"},
   tokenContract : {Undefined, "ST1TOKEN.sbtc-token"}]

CallSignPaymentV2 ==
  \E requirement \in SignerRequirements, dep \in StacksOutcomes :
    /\ UNCHANGED << gateVars, clientVars, limiter >>
    /\ fcCall' = [op |-> "signPaymentV2", asset |-> requirement.asset,
                  tokenContract |-> getTokenContractForAsset(
                                      requirement.asset,
                                      networkFromCAIP2(requirement.network)),
                  amount |-> requirement.amount, dep |-> dep, request |-> requirement]
    /\ fcResult' = signPaymentV2(requirement, [network |-> "testnet"], dep)

CallSignPayment ==
  \E paymentRequest \in SignerNotices, dep \in StacksOutcomes :
    /\ UNCHANGED << gateVars, clientVars, limiter >>
    /\ fcCall' = [op |-> "signPayment", asset |-> OrElse(paymentRequest.tokenType, "STX"),
                  tokenContract |-> paymentRequest.tokenContract,
                  amount |-> paymentRequest.maxAmountRequired, dep |-> dep,
                  request |-> paymentRequest]
    /\ fcResult' = signPayment(paymentRequest, dep)

(***************************************************************************)
(* middleware-v2.ts: paymentRateLimit                                      *)
(***************************************************************************)
RateLimitKeys == {"10.0.0.1", "10.0.0.2"}

RateLimitConfigs == [freeRequests : 0..MaxFreeRequests, windowMs : {1, 2}]

\* requestCounts.get(key) of a key without record
NoRecord == [count |-> 0, resetAt |-> 0, present |-> FALSE]

InitLimiter ==
  limiter \in {[config |-> c,
                requestCounts |-> [k \in RateLimitKeys |-> NoRecord],
                now |-> 1,
                paused |-> << >>,
                log |-> << >>] : c \in RateLimitConfigs}

RecordAt_NeverExpires(st, key) ==
  IF st.requestCounts[key].present
  THEN st.requestCounts[key]
  ELSE [count |-> 0, resetAt |-> st.now + st.config.windowMs, present |-> TRUE]

\* lines 303-315: the record of the key at time now, fresh when there is
\* none or its window has expired
RecordAt(st, key) ==
  IF st.requestCounts[key].present /\ ~ (st.requestCounts[key].resetAt < st.now)
  THEN st.requestCounts[key]
  ELSE [count |-> 0, resetAt |-> st.now + st.config.windowMs, present |-> TRUE]

OverFreeTier_Strict(record, config) == record.count > config.freeRequests

\* line 318: record.count >= config.freeRequests
OverFreeTier(record, config) == record.count >= config.freeRequests

SuspendsBeforeIncrement_Yes == TRUE

\* lines 298-325: the handler has no await between the test of line 318 and
\* the increment of line 323
SuspendsBeforeIncrement == FALSE

Logged(st, key, record, outcome) ==
  Append(st.log, [key |-> key, window |-> record.resetAt, outcome |-> outcome])

\* lines 322-324: record.count++ on the record object the handler holds,
\* then next()
CountAndContinue(st, key, record) ==
  [st EXCEPT !.requestCounts[key] =
               IF @.present /\ @.resetAt = record.resetAt
               THEN [@ EXCEPT !.count = @ + 1] ELSE @,
             !.log = Logged(st, key, record, "free")]

RateLimitHandle_SharedRecord(st, key) ==
  LET record == RecordAt(st, key)
  IN IF OverFreeTier(record, st.config)
     THEN [st EXCEPT !.requestCounts = [k \in RateLimitKeys |-> record],
                     !.log = Logged(st, key, record, "gated")]
     ELSE [st EXCEPT !.requestCounts =
                       [k \in RateLimitKeys |-> [record EXCEPT !.count = @ + 1]],
                     !.log = Logged(st, key, record, "free")]

\* lines 298-325 for one request of the key
RateLimitHandle(st, key) ==
  LET record == RecordAt(st, key)
      stored == [st EXCEPT !.requestCounts[key] = record]
  IN IF OverFreeTier(record, st.config)
     THEN \* line 319: return middleware(req, res, next)
          [stored EXCEPT !.log = Logged(st, key, record, "gated")]
     ELSE IF SuspendsBeforeIncrement
     THEN [stored EXCEPT !.paused = Append(@, [key |-> key, record |-> record])]
     ELSE CountAndContinue(stored, key, record)

\* a handler suspended before its increment continues
RateLimitResume(st) ==
  [CountAndContinue(st, st.paused[1].key, st.paused[1].record) EXCEPT
     !.paused = Tail(st.paused)]

\* a request of some key arrives and its handler runs as far as it can
\* without suspending; or a suspended handler continues
RateLimitRequest ==
  /\ Len(limiter.log) + Len(limiter.paused) < MaxRequests
       \/ limiter.paused # << >>
  /\ \E key \in RateLimitKeys, resume \in BOOLEAN :
       limiter' = IF resume /\ limiter.paused # << >>
                  THEN RateLimitResume(limiter)
                  ELSE IF Len(limiter.log) + Len(limiter.paused) < MaxRequests
                  THEN RateLimitHandle(limiter, key)
                  ELSE RateLimitResume(limiter)
  /\ UNCHANGED << gateVars, fcVars, clientVars >>

\* Date.now() advances
RateLimitTick ==
  /\ limiter.now < MaxClock
  /\ limiter' = [limiter EXCEPT !.now = @ + 1]
  /\ UNCHANGED << gateVars, fcVars, clientVars >>

(***************************************************************************)
(* The V2 gate and the axios handler, end to end                           *)
(***************************************************************************)
\* req.originalUrl of the request axios sends for its config object
UrlOf(c) == IF c = 1 THEN "/1" ELSE IF c = 2 THEN "/2" ELSE IF c = 3 THEN "/3" ELSE "/n"

\* JSON.parse(JSON.stringify(notice)): the gate's notice as the handler
\* reads it
NoticeOnWire(n) ==
  NoticeOf(n.x402Version,
           [type |-> "object", url |-> n.resource.url],
           ListOf(n.accepts))

\* a JSON body that is an object but no notice
OtherBody == NoticeOf(0, NoResource, [kind |-> "missing"])

\* the gate set the payment-required header on this response
HasPaymentRequired(res) == res.body.kind \in {"notice", "settle_error"}

\* error.response of the axios error for the gate's response
ResponseOnWire(res) ==
  [status |-> res.status,
   header |-> IF HasPaymentRequired(res)
              THEN EncodeBase64Json(NoticeOnWire(res.paymentRequired.value))
              ELSE [kind |-> "absent"],
   data |-> IF res.body.kind = "notice" THEN NoticeOnWire(res.body.notice) ELSE OtherBody]

\* the gate has answered the request the client is waiting for
GateAnswered ==
  /\ gatePc = "done"
  /\ gateReq.url = UrlOf(inflight)
  /\ gateReq.header = sentHeader

\* the request axios sent reaches the gate
EndToEndRequest ==
  /\ clientApi = "axios"
  /\ callStatus = "awaiting"
  /\ ~ GateAnswered
  /\ GateReceive(UrlOf(inflight), sentHeader)

\* the gate's 2xx answer reaches the client
EndToEndFulfilled ==
  /\ GateAnswered
  /\ gateRes.status = 200
  /\ AxiosFulfilled

\* the gate's other answers reach the handler
EndToEndResponseError ==
  /\ clientApi = "axios"
  /\ callStatus = "awaiting"
  /\ GateAnswered
  /\ gateRes.status # 200
  /\ callSigns < MaxConfigs
  /\ \E dep \in DepChoices(ResponseOnWire(gateRes)) :
       AxiosRejected(HandlerRun(inflight, ResponseOnWire(gateRes), dep))

(***************************************************************************)
(* Header encodings: JSON.stringify, JSON.parse and base64                 *)
(***************************************************************************)
\* a JavaScript value as JSON.stringify sees it; an object keeps its keys
\* in insertion order next to their values
JUndefined == [t |-> "undefined", str |-> "", num |-> 0, keys |-> << >>, elems |-> << >>]
JNull == [JUndefined EXCEPT !.t = "null"]
JString(s) == [JUndefined EXCEPT !.t = "string", !.str = s]
JNumber(n) == [JUndefined EXCEPT !.t = "number", !.num = n]
JBoolean(s) == [JUndefined EXCEPT !.t = "boolean", !.str = s]
JObject(keys, items) == [JUndefined EXCEPT !.t = "object", !.keys = keys, !.elems = items]
JArray(items) == [JUndefined EXCEPT !.t = "array", !.elems = items]

\* one lexical token of a JSON text
Tok(k, s, n) == [lex |-> k, chars |-> s, digits |-> n]

RECURSIVE JsonStringify(_)
RECURSIVE StringifyMembers(_, _)
RECURSIVE StringifyElements(_)

\* JSON.stringify of an object: a member whose value is undefined is left out
StringifyMembers(keys, items) ==
  IF Len(keys) = 0 THEN << >>
  ELSE (IF Head(items).t = "undefined" THEN << >>
        ELSE << Tok("key", Head(keys), 0) >> \o JsonStringify(Head(items)))
       \o StringifyMembers(Tail(keys), Tail(items))

\* JSON.stringify of an array: an undefined element is written as null
StringifyElements(items) ==
  IF Len(items) = 0 THEN << >>
  ELSE JsonStringify(IF Head(items).t = "undefined" THEN JNull ELSE Head(items))
       \o StringifyElements(Tail(items))

\* JSON.stringify(v) for the objects the encoders are given
JsonStringify(v) ==
  CASE v.t = "object" ->
         << Tok("{", "", 0) >> \o StringifyMembers(v.keys, v.elems) \o << Tok("}", "", 0) >>
    [] v.t = "array" ->
         << Tok("[", "", 0) >> \o StringifyElements(v.elems) \o << Tok("]", "", 0) >>
    [] OTHER -> << Tok(v.t, v.str, v.num) >>

ParseFailed == [ok |-> FALSE, parsed |-> JUndefined, rest |-> << >>]

RECURSIVE ParseValue(_)
RECURSIVE ParseMembers(_, _, _)
RECURSIVE ParseElements(_, _)

ParseMembers(toks, keys, items) ==
  IF Len(toks) = 0 THEN ParseFailed
  ELSE IF Head(toks).lex = "}"
    THEN [ok |-> TRUE, parsed |-> JObject(keys, items), rest |-> Tail(toks)]
  ELSE IF Head(toks).lex # "key" THEN ParseFailed
  ELSE LET member == ParseValue(Tail(toks)) IN
       IF ~ member.ok THEN ParseFailed
       ELSE ParseMembers(member.rest, Append(keys, Head(toks).chars),
                         Append(items, member.parsed))

ParseElements(toks, items) ==
  IF Len(toks) = 0 THEN ParseFailed
  ELSE IF Head(toks).lex = "]"
    THEN [ok |-> TRUE, parsed |-> JArray(items), rest |-> Tail(toks)]
  ELSE LET element == ParseValue(toks) IN
       IF ~ element.ok THEN ParseFailed
       ELSE ParseElements(element.rest, Append(items, element.parsed))

ParseValue(toks) ==
  IF Len(toks) = 0 THEN ParseFailed
  ELSE CASE Head(toks).lex = "{" -> ParseMembers(Tail(toks), << >>, << >>)
         [] Head(toks).lex = "[" -> ParseElements(Tail(toks), << >>)
         [] Head(toks).lex \in {"string", "number", "boolean", "null"} ->
              [ok |-> TRUE,
               parsed |-> [JUndefined EXCEPT !.t = Head(toks).lex,
                                             !.str = Head(toks).chars,
                                             !.num = Head(toks).digits],
               rest |-> Tail(toks)]
         [] OTHER -> ParseFailed

\* what a decoder gives back: a value, or an exception that leaves it
Decoded(value) == [value |-> value, threw |-> FALSE]
DecoderThrew == [value |-> JUndefined, threw |-> TRUE]

\* JSON.parse(text): a SyntaxError unless the whole text is one value
JsonParse(text) ==
  LET parsed == ParseValue(text) IN
  IF parsed.ok /\ Len(parsed.rest) = 0 THEN Decoded(parsed.parsed) ELSE DecoderThrew

\* Buffer.from(text).toString('base64'): a header string that stands for
\* the bytes of the text
ToBase64(text) == [kind |-> "string", bytes |-> text]

\* Buffer.from(header, 'base64').toString('utf-8'): a TypeError when the
\* header is not a string, else whatever bytes the string stands for
FromBase64(header) ==
  IF header.kind = "absent" THEN [threw |-> TRUE, text |-> << >>]
  ELSE [threw |-> FALSE, text |-> header.bytes]

AbsentHeader == [kind |-> "absent", bytes |-> << >>]
EmptyHeader == [kind |-> "string", bytes |-> << >>]

ParseHeader_NoCatch(header) ==
  IF FromBase64(header).threw THEN DecoderThrew
  ELSE JsonParse(FromBase64(header).text)

\* middleware-v2.ts lines 333-338 and 345-350, interceptor-v2.ts lines
\* 60-65 and 74-79: try { decode; JSON.parse } catch { return null }
ParseHeader(header) ==
  IF FromBase64(header).threw \/ JsonParse(FromBase64(header).text).threw
  THEN Decoded(JNull)
  ELSE JsonParse(FromBase64(header).text)

\* middleware-v2.ts lines 332-339
parsePaymentRequiredHeader(header) == ParseHeader(header)

\* middleware-v2.ts lines 344-351
parsePaymentResponseHeader(header) == ParseHeader(header)

\* interceptor-v2.ts lines 57-66 and 71-80: if (!header) return null
DecodeHeader(header) ==
  IF header.kind = "absent" \/ header = EmptyHeader THEN Decoded(JNull)
  ELSE ParseHeader(header)

\* interceptor-v2.ts lines 57-66
decodePaymentResponse(header) == DecodeHeader(header)

\* middleware-v2.ts lines 92-101: the gate reads the payment-signature
\* header; a header it cannot decode is answered 400, here null
DecodeSignatureHeader(header) == ParseHeader(header)

\* interceptor-v2.ts lines 85-87, middleware-v2.ts lines 165 and 224
encodePaymentPayload(payload) == ToBase64(JsonStringify(payload))

RequirementTrees ==
  {JObject(<< "scheme", "network", "amount", "asset", "payTo", "maxTimeoutSeconds", "extra" >>,
           << JString("exact"), JString(network), JString("100000"), JString("STX"),
              JString("SP_MERCHANT"), JNumber(timeout), extra >>) :
     network \in {STACKS_MAINNET, STACKS_TESTNET}, timeout \in {60, 300},
     extra \in {JUndefined, JObject(<< "name" >>, << JString("premium") >>)}}

ResourceTrees ==
  {JObject(<< "url", "description", "mimeType" >>,
           << JString("https://api.example.com/premium"), description, mimeType >>) :
     description \in {JUndefined, JString("premium")},
     mimeType \in {JUndefined, JString("application/json")}}

\* createPaymentRequiredResponse, lines 204-208
NoticeTrees ==
  {JObject(<< "x402Version", "resource", "accepts" >>,
           << JNumber(2), resource, JArray(<< requirement >>) >>) :
     resource \in ResourceTrees, requirement \in RequirementTrees}

\* interceptor-v2.ts: the payload the client signs and sends
PayloadTrees ==
  {JObject(<< "x402Version", "resource", "accepted", "payload" >>,
           << JNumber(2), resource, requirement,
              JObject(<< "transaction" >>, << JString("0xsigned") >>) >>) :
     resource \in {JUndefined, JObject(<< "url" >>, << JString("https://api.example.com/premium") >>)},
     requirement \in RequirementTrees}

\* middleware-v2.ts lines 158-163
ResponseTrees ==
  {JObject(<< "success", "payer", "transaction", "network" >>,
           << JBoolean("true"), payer, JString("0xtx"), JString(network) >>) :
     payer \in {JUndefined, JString("SP_PAYER")},
     network \in {STACKS_MAINNET, STACKS_TESTNET}}

\* headers no encoder produced: none, the empty string, bytes that are
\* no JSON text, and an encoding cut short
BrokenHeaders(value) ==
  {AbsentHeader, EmptyHeader, ToBase64(<< Tok("word", "garbage", 0) >>),
   ToBase64(SubSeq(JsonStringify(value), 1, Len(JsonStringify(value)) - 1))}

CodecCall(op, value, header, result) ==
  /\ UNCHANGED << gateVars, clientVars, limiter >>
  /\ fcCall' = [op |-> op, value |-> value, header |-> header,
                encoded |-> header = encodePaymentPayload(value)]
  /\ fcResult' = result

CallDecodePaymentRequired ==
  \E n \in NoticeTrees : \E h \in {encodePaymentPayload(n)} \cup BrokenHeaders(n) :
    CodecCall("decodePaymentRequired", n, h, DecodeHeader(h))

CallParsePaymentRequiredHeader ==
  \E n \in NoticeTrees : \E h \in {encodePaymentPayload(n)} \cup BrokenHeaders(n) :
    CodecCall("parsePaymentRequiredHeader", n, h, parsePaymentRequiredHeader(h))

CallDecodeSignatureHeader ==
  \E p \in PayloadTrees : \E h \in {encodePaymentPayload(p)} \cup BrokenHeaders(p) :
    CodecCall("paymentMiddleware.decode", p, h, DecodeSignatureHeader(h))

CallDecodePaymentResponse ==
  \E s \in ResponseTrees : \E h \in {encodePaymentPayload(s)} \cup BrokenHeaders(s) :
    CodecCall("decodePaymentResponse", s, h, decodePaymentResponse(h))

CallParsePaymentResponseHeader ==
  \E s \in ResponseTrees : \E h \in {encodePaymentPayload(s)} \cup BrokenHeaders(s) :
    CodecCall("parsePaymentResponseHeader", s, h, parsePaymentResponseHeader(h))

(***************************************************************************)
(* Specifications                                                          *)
(***************************************************************************)
vars == << gateVars, fcVars, clientVars, limiter >>

\* a limiter that takes no step
InitLimiterIdle ==
  /\ InitLimiter
  /\ limiter.config = [freeRequests |-> 0, windowMs |-> 1]

NextGate ==
  \/ GateRequestArrives \/ GateSettleReturns \/ GateValidatorReturns
  \/ V1RequestArrives \/ V1VerifierReturns \/ V1ValidatorReturns

InitClientIdle ==
  /\ clientApi = "axios"
  /\ InitAxios
  /\ account.network = "testnet" /\ clonesConfig
  /\ legacy = IdleLegacy("testnet")

\* one gate is mounted; the configuration of the others does not matter
InitGates ==
  /\ InitGate
  /\ gateApi \in GateApis
  /\ v1Gate \in {V1Idle(c) : c \in V1Configs}
  /\ gateApi = "paymentMiddleware" =>
        v1Gate = V1Idle(V1DefaultConfig)
  /\ gateApi # "paymentMiddleware" =>
        /\ gateConfig.network = "testnet" /\ gateConfig.maxTimeoutSeconds = 0
        /\ ~ gateConfig.hasValidator

InitSpecGate == InitGates /\ InitFacilitator /\ InitClientIdle /\ InitLimiterIdle

SpecGate == InitSpecGate /\ [][NextGate]_vars

NextConditional ==
  \/ ConditionalRequestArrives \/ GateSettleReturns \/ GateValidatorReturns

InitSpecConditional ==
  /\ InitGate
  /\ gateConfig.network = "testnet" /\ gateConfig.maxTimeoutSeconds = 0
  /\ gateApi = "paymentMiddleware"
  /\ v1Gate = V1Idle(V1DefaultConfig)
  /\ InitFacilitator /\ InitClientIdle /\ InitLimiterIdle

SpecConditional == InitSpecConditional /\ [][NextConditional]_vars

NextV1Token == V1TokenRequestArrives \/ V1VerifierReturns

InitSpecV1Token ==
  /\ InitGate
  /\ gateConfig.network = "testnet" /\ gateConfig.maxTimeoutSeconds = 0
  /\ ~ gateConfig.hasValidator
  /\ gateApi = "paymentMiddlewareV1"
  /\ v1Gate \in {V1Idle(c) : c \in V1TokenConfigs}
  /\ InitFacilitator /\ InitClientIdle /\ InitLimiterIdle

SpecV1Token == InitSpecV1Token /\ [][NextV1Token]_vars

NextFacilitator ==
  \/ FcSettle
  \/ FcVerify
  \/ FcSettlePayment
  \/ FcVerifyPayment
  \/ FcGetSupported
  \/ FcIsKindSupported
  \/ FcVerifyAndSettle

InitGateIdle ==
  /\ InitGate
  /\ gateApi = "paymentMiddleware"
  /\ v1Gate = V1Idle(V1DefaultConfig)
  /\ gateConfig.network = "testnet" /\ gateConfig.maxTimeoutSeconds = 0
  /\ ~ gateConfig.hasValidator

InitSpecFacilitator == InitGateIdle /\ InitFacilitator /\ InitClientIdle /\ InitLimiterIdle

SpecFacilitator == InitSpecFacilitator /\ [][NextFacilitator]_vars

NextClient ==
  \/ AxiosCall \/ AxiosFulfilled \/ AxiosResponseError
  \/ LegacyCall \/ LegacyFulfilled \/ LegacyResponseError \/ LegacyMakePayment

InitSpecClient ==
  /\ InitGateIdle /\ InitFacilitator
  /\ clientApi \in {"axios", "legacy"}
  /\ InitAxios
  /\ InitLegacy
  /\ clientApi = "axios" => legacy.network = "testnet"
  /\ clientApi = "legacy" => account.network = "testnet" /\ clonesConfig
  /\ InitLimiterIdle

SpecClient == InitSpecClient /\ [][NextClient]_vars

\* X402PaymentClient alone, with a server that answers every request
NextLegacy == LegacyCall \/ LegacyFulfilled \/ LegacyResponseError \/ LegacyMakePayment

InitSpecLegacy ==
  /\ InitGateIdle /\ InitFacilitator
  /\ clientApi = "legacy"
  /\ InitAxios
  /\ account.network = "testnet" /\ clonesConfig
  /\ InitLegacy
  /\ InitLimiterIdle

SpecLegacy ==
  InitSpecLegacy /\ [][NextLegacy]_vars /\ WF_vars(LegacyFulfilled \/ LegacyResponseError)

NextSigner == CallSignPaymentV2 \/ CallSignPayment

InitSpecSigner == InitGateIdle /\ InitFacilitator /\ InitClientIdle /\ InitLimiterIdle

SpecSigner == InitSpecSigner /\ [][NextSigner]_vars

NextCodec ==
  \/ CallDecodePaymentRequired
  \/ CallParsePaymentRequiredHeader
  \/ CallDecodeSignatureHeader
  \/ CallDecodePaymentResponse
  \/ CallParsePaymentResponseHeader

InitSpecCodec == InitGateIdle /\ InitFacilitator /\ InitClientIdle /\ InitLimiterIdle

SpecCodec == InitSpecCodec /\ [][NextCodec]_vars

NextPolling == WaitForConfirmationCalled \/ WaitForConfirmationPolls

InitSpecPolling == InitGateIdle /\ InitFacilitator /\ InitClientIdle /\ InitLimiterIdle

\* verifyPayment settles within the timeout of its HTTP client and the
\* timer between two attempts fires
SpecPolling ==
  InitSpecPolling /\ [][NextPolling]_vars /\ WF_vars(WaitForConfirmationPolls)

NextEndToEnd ==
  \/ AxiosCall \/ EndToEndRequest \/ GateSettleReturns \/ GateValidatorReturns
  \/ EndToEndFulfilled \/ EndToEndResponseError

InitSpecEndToEnd ==
  /\ InitGate
  /\ gateApi = "paymentMiddleware"
  /\ v1Gate = V1Idle(V1DefaultConfig)
  /\ InitFacilitator
  /\ clientApi = "axios"
  /\ InitAxios
  /\ legacy = IdleLegacy("testnet")
  /\ InitLimiterIdle

SpecEndToEnd == InitSpecEndToEnd /\ [][NextEndToEnd]_vars

NextRateLimit == RateLimitRequest \/ RateLimitTick

InitSpecRateLimit == InitGateIdle /\ InitFacilitator /\ InitClientIdle /\ InitLimiter

SpecRateLimit == InitSpecRateLimit /\ [][NextRateLimit]_vars

(***************************************************************************)
(* Properties of the V2 gate                                               *)
(***************************************************************************)
\* C1: the handler is invoked only after a settle call that returned
\* success true (and an accepting validator when one is configured); when
\* settle returns success false the response is 402, its body carries the
\* errorReason (unexpected_settle_error when there is none) and the
\* handler is not invoked.
C1_HandlerOnlyAfterSuccessfulSettle ==
  /\ nextCalls > 0 =>
        /\ Len(settleCalls) = 1
        /\ Field(settlementResult, "success") = "true"
        /\ gateConfig.hasValidator =>
              /\ Len(validatorCalls) = 1
              /\ validatorCalls[1].returned = "accept"
  /\ Field(settlementResult, "success") = "false" =>
        /\ gateRes.status = 402
        /\ gateRes.body.kind = "settle_error"
        /\ gateRes.body.error =
             OrElse(Field(settlementResult, "errorReason"), UNEXPECTED_SETTLE_ERROR)
        /\ nextCalls = 0

C1_Witness ==
  /\ Len(settleCalls) = 1
  /\ Field(settlementResult, "success") = "false"
  /\ Field(settlementResult, "errorReason") = Undefined
  /\ gateRes.status = 402

\* C7: the gate admits no request whose payload echoes an `accepted`
\* requirement that differs from the requirement the gate offers.
C7_AdmittedPayloadEchoesOffer ==
  nextCalls > 0 =>
    settleCalls[1].paymentPayload.accepted = BuildRequirements(gateConfig)

(***************************************************************************)
(* Properties of the facilitator clients                                   *)
(***************************************************************************)
\* C4: settle returns success true only for a 2xx answer whose body says
\* success; for every transport failure the result has success false, a
\* non-empty errorReason, and the requirement's network when the
\* facilitator supplied none.
C4_SettleNeverInventsSuccess ==
  fcCall.op = "settle" =>
    /\ Field(fcResult, "success") = "true" =>
         /\ fcCall.outcome.kind = "2xx"
         /\ Field(fcCall.outcome.body, "success") = "true"
    /\ fcCall.outcome.kind # "2xx" =>
         /\ fcResult.type = "object"
         /\ fcResult.success = "false"
         /\ Truthy(fcResult.errorReason)
         /\ ~ Truthy(Field(fcCall.outcome.body, "network")) =>
               fcResult.network = fcCall.network

C4_Witness ==
  /\ fcCall.op = "settle"
  /\ fcCall.outcome.kind = "non2xx"
  /\ Field(fcCall.outcome.body, "success") = "true"
  /\ Field(fcCall.outcome.body, "network") = Undefined
  /\ fcResult.success = "false"

\* C5: no facilitator-client operation throws: whatever the outcome of the
\* remote call, verify, settle, settlePayment and verifyPayment return a
\* result object.
C5_NoExceptionEscapes ==
  fcCall.op # "none" => fcResult.type # "throw"

(***************************************************************************)
(* Properties of the axios 402 handler                                     *)
(***************************************************************************)
\* the handler ran on a 402 for a config object it had not seen before
FreshRun == lastRun.ran /\ lastRun.status = 402 /\ ~ lastRun.attempted

\* an offered option the account can pay: a Stacks CAIP-2 id of its network
Compatible(opt) ==
  \/ account.network = "mainnet" /\ opt.network = STACKS_MAINNET
  \/ account.network = "testnet" /\ opt.network = STACKS_TESTNET

CompatibleAt(items) == {i \in 1..Len(items) : Compatible(items[i])}

\* the notice the handler reads (header first, else body) is malformed
MalformedNoticeRead ==
  \/ lastRun.headerClass = "malformed"
  \/ lastRun.headerClass \in {"absent", "undecodable"} /\ lastRun.dataClass = "malformed"

\* C2: a payment is signed at most once per request config object, and a
\* handler run on a 402 for an object already seen rejects with 'Payment
\* already attempted for this request', without signing and without
\* re-issuing the request.
C2_SignedOncePerConfig ==
  /\ \A c \in 1..MaxConfigs : signedFor[c] <= 1
  /\ (lastRun.ran /\ lastRun.status = 402 /\ lastRun.attempted) =>
       /\ lastRun.error = ErrorOf("Payment already attempted for this request")
       /\ ~ lastRun.signerCalled
       /\ ~ lastRun.reissued
       /\ callStatus = "rejected"

C2_Witness ==
  /\ lastRun.ran /\ lastRun.status = 402 /\ lastRun.attempted
  /\ signedFor[lastRun.config] = 1
  /\ callStatus = "rejected"

\* C3: within one call through the wrapped instance the signer is invoked
\* at most once and the request is re-issued at most once, even when the
\* server answers 402 to the retried request as well.
C3_OneSignOneRetry == callSigns <= 1 /\ callRetries <= 1

\* C8: the option handed to the signer is on the account's network, and
\* when exactly one offered option is compatible with the account the
\* handler selects that option, wherever it stands in the list.
C8_SelectsTheCompatibleOption ==
  /\ lastRun.signerCalled => Compatible(lastRun.selected)
  /\ (FreshRun /\ Cardinality(CompatibleAt(lastRun.accepts)) = 1) =>
       \A i \in CompatibleAt(lastRun.accepts) : lastRun.selected = lastRun.accepts[i]

\* C9: when a notice offers options and none is compatible with the
\* account, the handler fails with 'No compatible payment option found'
\* naming the offered networks, and the signer is not invoked.
C9_NoCompatibleOptionError ==
  (FreshRun /\ lastRun.accepts # << >> /\ CompatibleAt(lastRun.accepts) = {}) =>
    /\ lastRun.error =
         [msg |-> "No compatible payment option found. Available networks:",
          networks |-> [i \in 1..Len(lastRun.accepts) |-> lastRun.accepts[i].network]]
    /\ ~ lastRun.signerCalled

\* C10: a malformed notice, in the header or in the body, ends the call
\* with 'Invalid x402 v2 payment request from server': no signing and no
\* re-issued request.
C10_MalformedNoticeIsInvalid ==
  (FreshRun /\ MalformedNoticeRead) =>
    /\ lastRun.error = ErrorOf("Invalid x402 v2 payment request from server")
    /\ ~ lastRun.signerCalled
    /\ ~ lastRun.reissued

(***************************************************************************)
(* Properties of both clients                                              *)
(***************************************************************************)
\* C6: in the handler of wrapAxiosWithPayment and in requestWithPayment the
\* client only builds and signs: it never calls broadcastTransaction, and
\* the signed transaction is what the re-issued request carries in its
\* payment header.
C6_ClientNeverBroadcasts ==
  /\ \A c \in stacksCalls :
       c.by \in {"wrapAxiosWithPayment", "requestWithPayment"} =>
         c.op \in {"makeSTXTokenTransfer", "makeContractCall"}
  /\ lastRun.reissued =>
       /\ sentHeader = EncodeBase64Json(lastRun.payload)
       /\ lastRun.payload.payload.transaction.hex.kind \in {"token_transfer", "contract_call"}
  /\ (legacy.op = "requestWithPayment" /\ legacy.sent.payment # NoTransaction) =>
       /\ legacy.pc = "awaiting" => legacy.sent.payment = legacy.signed
       /\ legacy.sent.payment.hex.kind \in {"token_transfer", "contract_call"}

C6_Witness ==
  /\ lastRun.reissued
  /\ [by |-> "wrapAxiosWithPayment", op |-> "makeContractCall"] \in stacksCalls
  /\ sentHeader.kind = "b64json"

\* the handler read a notice from a header that decodes to an object
HeaderDecoded == lastRun.headerClass \in {"wellformed", "malformed"}

\* C11: when a 402 carries a decodable payment-required header and a
\* different valid notice in its body, the handler takes its options from
\* the header's notice; the body's notice is used only when the header is
\* absent or does not decode.
C11_HeaderBeforeBody ==
  /\ (FreshRun /\ HeaderDecoded /\ lastRun.dataClass = "wellformed"
        /\ lastRun.headerAccepts # lastRun.dataAccepts) =>
       /\ lastRun.accepts = lastRun.headerAccepts
       /\ lastRun.signerCalled =>
            \E i \in 1..Len(lastRun.headerAccepts) : lastRun.selected = lastRun.headerAccepts[i]
  /\ (FreshRun /\ lastRun.dataClass = "wellformed"
        /\ lastRun.accepts = lastRun.dataAccepts
        /\ lastRun.headerAccepts # lastRun.dataAccepts) =>
       lastRun.headerClass \in {"absent", "undecodable"}

C11_Witness ==
  /\ FreshRun /\ lastRun.headerClass = "wellformed" /\ lastRun.dataClass = "wellformed"
  /\ lastRun.headerAccepts # lastRun.dataAccepts
  /\ lastRun.reissued
  /\ lastRun.payload.accepted = lastRun.headerAccepts[1]

\* C12: after a successful signing the original request is re-issued with
\* the payment attached: the payment-signature header of the axios handler
\* decodes to version 2, the notice's resource, the selected option
\* unchanged and the signer's transaction; the retry of requestWithPayment
\* carries X-PAYMENT with the signed transaction and X-PAYMENT-TOKEN-TYPE
\* with the notice's token type, STX when it has none.
C12_RetryCarriesSignedPayload ==
  /\ lastRun.reissued =>
       /\ configs[lastRun.config]
       /\ sentHeader.kind = "b64json"
       /\ sentHeader.value =
            [type |-> "object",
             x402Version |-> 2,
             resource |-> lastRun.resource,
             accepted |-> lastRun.selected,
             payload |-> [transaction |->
                            signPaymentV2(lastRun.selected, account, "ok").signedTransaction]]
  /\ (legacy.op = "requestWithPayment" /\ legacy.pc = "awaiting" /\ legacy.signs > 0) =>
       /\ legacy.sent.payment = legacy.signed
       /\ legacy.sent.payment.hex.kind \in {"token_transfer", "contract_call"}
       /\ legacy.sent.tokenType = OrElse(legacy.notice.tokenType, "STX")
  /\ (legacy.op = "requestWithPayment" /\ legacy.signs = 0) => legacy.sent = NoPayment

C12_Witness ==
  /\ lastRun.reissued
  /\ Len(lastRun.accepts) = 2
  /\ lastRun.selected = lastRun.accepts[2]
  /\ lastRun.selected # lastRun.accepts[1]
  /\ sentHeader.value.accepted = lastRun.selected

(***************************************************************************)
(* Further properties of the V2 gate                                       *)
(***************************************************************************)
\* the CAIP-2 id the gate offers for its configured network
OfferedNetwork ==
  CASE gateConfig.network \in {"mainnet", STACKS_MAINNET} -> STACKS_MAINNET
    [] OTHER -> STACKS_TESTNET

C14_UndecodableHeaderIs400 ==
  (/\ gatePc = "done"
   /\ ~ HeaderMissing(gateReq.header)
   /\ \/ gateReq.header.kind # "b64json"
      \/ gateReq.header.value.type # "object") =>
    /\ gateRes.status = 400
    /\ settleCalls = << >>
    /\ nextCalls = 0

\* C15: an admitted request has the settlement result attached as
\* req.payment and the payment-response header set to the base64 JSON of
\* the result's success, payer, transaction and network, and its handler
\* is invoked exactly once; a successful settlement that no validator
\* rejects is admitted.
C15_AdmitAttachesEvidence ==
  /\ nextCalls <= 1
  /\ nextCalls = 1 =>
       /\ gateReq.payment = settlementResult
       /\ gateRes.paymentResponse =
            EncodeBase64Json([success |-> settlementResult.success,
                              payer |-> settlementResult.payer,
                              transaction |-> settlementResult.transaction,
                              network |-> settlementResult.network])
  /\ (/\ gatePc = "done"
      /\ Field(settlementResult, "success") = "true"
      /\ gateConfig.hasValidator => validatorCalls[1].returned = "accept") =>
       nextCalls = 1

C15_Witness ==
  /\ nextCalls = 1
  /\ gateConfig.hasValidator
  /\ gateReq.payment.success = "true"
  /\ gateRes.paymentResponse.value.transaction = settlementResult.transaction

\* C16: with a paymentValidator configured, the handler is invoked only
\* when the validator returned a truthy value; the validator is called
\* only with a successful settlement, and its rejection is answered 402
\* although the facilitator reported success.  This holds for the V2 gate
\* and for the legacy gates.
C16_ValidatorGuardsHandler ==
  /\ gateConfig.hasValidator =>
       /\ nextCalls > 0 =>
            /\ Len(validatorCalls) = 1
            /\ validatorCalls[1].returned = "accept"
       /\ validatorCalls # << >> =>
            /\ validatorCalls[1].payment = settlementResult
            /\ settlementResult.success = "true"
            /\ validatorCalls[1].returned = "reject" =>
                 /\ gateRes.status = 402
                 /\ gateRes.body.error = "custom_validation_failed"
                 /\ nextCalls = 0
  /\ ~ gateConfig.hasValidator => validatorCalls = << >>
  /\ v1Gate.config.hasValidator =>
       /\ v1Gate.nextCalls > 0 => v1Gate.validator = "accept"
       /\ v1Gate.validator # "none" =>
            /\ v1Gate.verification.isValid = "true"
            /\ v1Gate.verification.status # "failed"
            /\ v1Gate.validator = "reject" =>
                 /\ v1Gate.res.status = 402
                 /\ v1Gate.res.error = "Payment validation failed"
                 /\ v1Gate.nextCalls = 0
  /\ ~ v1Gate.config.hasValidator => v1Gate.validator = "none"

C16_Witness ==
  /\ gateConfig.hasValidator
  /\ Len(validatorCalls) = 1
  /\ validatorCalls[1].returned = "reject"
  /\ settlementResult.success = "true"
  /\ gateRes.status = 402

\* C17: an exception raised while the gate processes a request is
\* answered 500 with a generic message: the body does not contain the
\* message of the exception.
C17_NoExceptionTextIn500 ==
  /\ (Len(validatorCalls) = 1 /\ validatorCalls[1].returned = "throw") =>
       /\ gateRes.status = 500
       /\ gateRes.body.message # ValidatorErrorMessage
  /\ v1Gate.validator = "throw" =>
       /\ v1Gate.res.status = 500
       /\ v1Gate.res.details # ValidatorErrorMessage

\* C18: in the legacy gate a valid verification whose status is pending
\* is admitted exactly when the gate is configured with acceptUnconfirmed
\* (and the validator, if any, accepts); otherwise the answer is 402
\* 'Payment not yet confirmed' and the handler is not invoked.
C18_PendingAdmittedIffConfigured ==
  (/\ gateApi # "paymentMiddleware"
   /\ v1Gate.pc = "done"
   /\ v1Gate.verification.type = "object"
   /\ v1Gate.verification.isValid = "true"
   /\ v1Gate.verification.status = "pending") =>
    IF v1Gate.config.acceptUnconfirmed
    THEN IF v1Gate.config.hasValidator /\ v1Gate.validator # "accept"
         THEN v1Gate.nextCalls = 0
         ELSE v1Gate.nextCalls = 1
    ELSE /\ v1Gate.nextCalls = 0
         /\ v1Gate.res.status = 402
         /\ v1Gate.res.error = "Payment not yet confirmed"

(***************************************************************************)
(* Properties of paymentRateLimit                                          *)
(***************************************************************************)
\* the requests before the i-th that had the same key in the same window
EarlierInWindow(i) ==
  {j \in 1..(i - 1) : /\ limiter.log[j].key = limiter.log[i].key
                      /\ limiter.log[j].window = limiter.log[i].window}

FreeInWindow(key, window) ==
  {i \in 1..Len(limiter.log) : /\ limiter.log[i].key = key
                               /\ limiter.log[i].window = window
                               /\ limiter.log[i].outcome = "free"}

\* C19: of the requests of one key inside one window exactly the first
\* freeRequests go straight to the handler and every later one is passed
\* to the payment gate; the counter counts the free requests only.
C19_FirstNFreeThenGated ==
  /\ \A i \in 1..Len(limiter.log) :
       limiter.log[i].outcome =
         IF Cardinality(EarlierInWindow(i)) < limiter.config.freeRequests
         THEN "free" ELSE "gated"
  /\ \A k \in RateLimitKeys :
       limiter.requestCounts[k].present =>
         limiter.requestCounts[k].count =
           Cardinality(FreeInWindow(k, limiter.requestCounts[k].resetAt))

C19_Witness ==
  /\ limiter.config.freeRequests = 2
  /\ Len(limiter.log) >= 3
  /\ \E i \in 1..Len(limiter.log) :
       /\ limiter.log[i].outcome = "gated"
       /\ Cardinality(EarlierInWindow(i)) = 2
       /\ limiter.requestCounts[limiter.log[i].key].count = 2

\* C20: whatever the order in which requests of one key are handled, at
\* most freeRequests of them are admitted free in one window: no handler
\* is suspended between its test of the counter and its increment.
C20_AtMostNFreePerWindow ==
  /\ limiter.paused = << >>
  /\ \A i \in 1..Len(limiter.log) :
       Cardinality(FreeInWindow(limiter.log[i].key, limiter.log[i].window))
         <= limiter.config.freeRequests

C20_Witness ==
  /\ limiter.config.freeRequests = 1
  /\ \E i, j \in 1..Len(limiter.log) :
       /\ i < j
       /\ limiter.log[i].key = limiter.log[j].key
       /\ limiter.log[i].window = limiter.log[j].window
       /\ limiter.log[i].outcome = "free"
       /\ limiter.log[j].outcome = "gated"

\* a request was handled in this step; its entry is the last of the log
RateLimitHandled == Len(limiter'.log) = Len(limiter.log) + 1

LastHandled == limiter'.log[Len(limiter'.log)]

\* C21: a request handled for one key leaves the record of every other
\* key as it was, and whether it is free or gated is decided by the
\* handled key's own record alone.
C21_OtherKeysUntouched ==
  [][RateLimitHandled =>
       /\ \A k \in RateLimitKeys \ {LastHandled.key} :
            limiter'.requestCounts[k] = limiter.requestCounts[k]
       /\ LastHandled.outcome =
            IF RecordAt(limiter, LastHandled.key).count < limiter.config.freeRequests
            THEN "free" ELSE "gated"]_vars

C21_Witness ==
  /\ Len(limiter.log) >= 3
  /\ \E i, j, k \in 1..Len(limiter.log) :
       /\ i < j /\ j < k
       /\ limiter.log[i].key = limiter.log[k].key
       /\ limiter.log[j].key # limiter.log[i].key
       /\ limiter.log[i].window = limiter.log[k].window
       /\ limiter.log[i].outcome = "free"
       /\ limiter.log[j].outcome = "free"
       /\ limiter.log[k].outcome = "gated"

\* C22: when the clock has passed the resetAt of a key's record, the next
\* request of that key starts a record whose resetAt is now + windowMs,
\* counted from 0, and is free whenever freeRequests >= 1, whatever the
\* count of the expired record was.
C22_ExpiredWindowStartsAfresh ==
  [][(/\ RateLimitHandled
      /\ limiter.requestCounts[LastHandled.key].present
      /\ limiter.requestCounts[LastHandled.key].resetAt < limiter.now) =>
       /\ LastHandled.window = limiter.now + limiter.config.windowMs
       /\ limiter'.requestCounts[LastHandled.key].resetAt =
            limiter.now + limiter.config.windowMs
       /\ IF limiter.config.freeRequests >= 1
          THEN /\ LastHandled.outcome = "free"
               /\ limiter'.requestCounts[LastHandled.key].count = 1
          ELSE /\ LastHandled.outcome = "gated"
               /\ limiter'.requestCounts[LastHandled.key].count = 0]_vars

C22_Witness ==
  \E i, j \in 1..Len(limiter.log) :
    /\ j = i + 1
    /\ limiter.log[i].key = limiter.log[j].key
    /\ limiter.log[i].window < limiter.log[j].window
    /\ limiter.log[i].outcome = "gated"
    /\ limiter.log[j].outcome = "free"
    /\ limiter.requestCounts[limiter.log[j].key].count = 1

(***************************************************************************)
(* Properties of the gate and the client together                          *)
(***************************************************************************)
\* the gate is settling, or has settled, the retry of the last handler run
SettlingTheRetry ==
  /\ settleCalls # << >>
  /\ lastRun.reissued
  /\ gateReq.header = sentHeader

\* C23: with one gate configuration, the requirement the gate hands to
\* settle equals accepts[0] of the notice it emitted, as the client read
\* it, and the payload of a client that selected accepts[0] carries that
\* accepts[0] in its accepted field.
C23_SettledRequirementIsTheOffer ==
  /\ SettlingTheRetry =>
       /\ settleCalls[1].paymentRequirements = lastRun.accepts[1]
       /\ settleCalls[1].paymentPayload.accepted = lastRun.accepts[1]
  /\ (lastRun.reissued /\ lastRun.selected = lastRun.accepts[1]) =>
       /\ lastRun.payload.accepted = lastRun.accepts[1]
       /\ sentHeader = EncodeBase64Json(lastRun.payload)

C23_Witness ==
  /\ SettlingTheRetry
  /\ gateConfig.maxTimeoutSeconds = 60
  /\ gateConfig.network = STACKS_MAINNET
  /\ lastRun.selected = lastRun.accepts[1]
  /\ nextCalls = 1

(***************************************************************************)
(* Further properties of the clients                                       *)
(***************************************************************************)
\* the handler ran in this step, called the signer, and the signer threw
SignerFailedNow ==
  /\ lastRun'.ran /\ lastRun' # lastRun
  /\ lastRun'.signerCalled /\ ~ lastRun'.reissued

\* C24: when the signer fails in the wrapAxiosWithPayment handler, the
\* call is rejected at once with 'Payment signing failed: <reason>'; no
\* request is re-issued and the signer is called once in that run.
C24_SignerFailureIsNotRetried ==
  [][SignerFailedNow =>
       /\ callStatus' = "rejected"
       /\ callError' = [msg |-> "Payment signing failed:", reason |-> lastRun'.error.reason]
       /\ callError'.reason \in {"SyntaxError", "Malformed asset", "Unsupported network",
                                 "Token contract required", "Invalid c32 address",
                                 "network error"}
       /\ callRetries' = callRetries
       /\ callSigns' = callSigns + 1
       /\ sentHeader' = sentHeader
       /\ configs' = configs
       /\ inflight' = 0]_vars

C24_Witness ==
  /\ lastRun.signerCalled /\ ~ lastRun.reissued
  /\ lastRun.error.msg = "Payment signing failed:"
  /\ lastRun.error.reason = "SyntaxError"
  /\ callStatus = "rejected"
  /\ callRetries = 0

\* C25: in requestWithPayment, once a request that carried a signed
\* payment has been answered 402, the client signs no further transaction
\* and sends no further payment in that call, whatever maxRetries is.
C25_NoSigningAfterPaidRefusal ==
  legacy.op = "requestWithPayment" =>
    /\ legacy.signsAfterRefusal = 0
    /\ legacy.paidRefused => legacy.pc # "awaiting"

\* C26: requestWithPayment with maxRetries = k issues at most k + 1
\* requests, every call ends, and a call whose k + 1 requests were all
\* answered 402 with a notice the client could sign ends with
\* 'Max retries exceeded for payment request'.
C26_BoundedRequestsThenMaxRetries ==
  /\ [](legacy.op = "requestWithPayment" =>
          /\ legacy.requests <= legacy.maxRetries + 1
          /\ legacy.attempt <= legacy.maxRetries + 1
          /\ legacy.pc = "awaiting" => legacy.attempt <= legacy.maxRetries
          /\ legacy.attempt = legacy.maxRetries + 1 =>
               /\ legacy.pc = "thrown"
               /\ legacy.error = "Max retries exceeded for payment request"
               /\ legacy.requests = legacy.maxRetries + 1)
  /\ (legacy.pc = "awaiting") ~> (legacy.pc # "awaiting")

C26_Witness ==
  /\ legacy.op = "requestWithPayment"
  /\ legacy.maxRetries = 2
  /\ legacy.requests = 3
  /\ legacy.signs = 3
  /\ legacy.pc = "thrown"
  /\ legacy.error = "Max retries exceeded for payment request"

(***************************************************************************)
(* Expiry at the gates                                                     *)
(***************************************************************************)
\* C27: neither gate calls the facilitator's settle for a payment that is
\* presented later than maxTimeoutSeconds (V2) or expirationSeconds
\* (legacy) after the notice it answers was issued.
C27_NoSettleAfterExpiry ==
  /\ (gateApi = "paymentMiddleware" /\ settleCalls # << >>) =>
       settleCalls[1].paymentPayload.noticeAge
         <= settleCalls[1].paymentRequirements.maxTimeoutSeconds
  /\ (gateApi = "paymentMiddlewareV1" /\ v1Gate.call = "settlePayment") =>
       v1Gate.req.noticeAge <= DefaultExpirationSeconds

(***************************************************************************)
(* Further properties of X402PaymentClient                                 *)
(***************************************************************************)
\* C28: a 402 notice whose expiresAt is in the past makes requestWithPayment
\* throw 'Payment request has expired'; the signer is never invoked for
\* such a notice and no further request follows it.
C28_ExpiredNoticeIsNotSigned ==
  /\ [](legacy.signs > 0 => legacy.notice.expiresAt # "past")
  /\ [][(legacy.pc = "awaiting"
           /\ legacy'.error = "Payment request has expired") =>
          /\ legacy'.pc = "thrown"
          /\ legacy'.signs = legacy.signs
          /\ legacy'.requests = legacy.requests
          /\ legacy'.sent = legacy.sent
          /\ stacksCalls' = stacksCalls]_vars
  /\ [](legacy.error = "Payment request has expired" => legacy.pc = "thrown")

C28_Witness ==
  /\ legacy.pc = "thrown"
  /\ legacy.error = "Payment request has expired"
  /\ legacy.signs = 1
  /\ legacy.requests = 2
  /\ legacy.maxRetries = 2

\* C29: X402PaymentClient signs only for the network it was configured
\* with; a notice that names the other network is rejected unsigned.
C29_LegacySignsOwnNetworkOnly ==
  (legacy.op = "requestWithPayment" /\ legacy.signs > 0) =>
    /\ legacy.notice.network = legacy.network
    /\ legacy.signed # NoTransaction =>
         legacy.signed.hex.network = getNetworkInstance(legacy.network)

(***************************************************************************)
(* Signer dispatch                                                         *)
(***************************************************************************)
IsNativeTransfer(tx) ==
  tx.kind = "token_transfer" /\ tx.call = NoCall /\ tx.contract = Undefined

IsTokenContractCall(tx) ==
  /\ tx.kind = "contract_call"
  /\ tx.contract # Undefined
  /\ tx.call.functionName = "transfer"
  /\ tx.call.functionArgs = << [cv |-> "uint", of |-> tx.amount],
                               [cv |-> "principal", of |-> "sender"],
                               [cv |-> "principal", of |-> tx.recipient],
                               [cv |-> "some", of |-> "memo"] >>

SignerCalled == fcCall.op \in {"signPaymentV2", "signPayment"}

\* the signer returned a transaction
SignerSucceeded ==
  \/ fcCall.op = "signPaymentV2" /\ fcResult.type = "ok"
  \/ fcCall.op = "signPayment" /\ fcResult.success

SignedTransactionOf == fcResult.signedTransaction.hex

\* C31: a requirement in a non-native asset whose token contract cannot be
\* resolved fails with the missing-contract error, with no transaction
\* built and no library call; and no requirement in an asset other than
\* STX is ever signed as a native STX transfer.
C31_NoSilentNativeTransfer ==
  SignerCalled =>
    /\ (fcCall.asset \in {"sBTC", "USDCx"} /\ fcCall.tokenContract = Undefined
          /\ fcCall.amount = "100000") =>
         /\ ~ SignerSucceeded
         /\ fcResult.calls = {}
    /\ (SignerSucceeded /\ fcCall.asset # "STX") =>
         SignedTransactionOf.kind # "token_transfer"

RECURSIVE NoUndefinedFields(_)
RECURSIVE NoneUndefined(_)

NoneUndefined(items) ==
  Len(items) = 0 \/ (NoUndefinedFields(Head(items)) /\ NoneUndefined(Tail(items)))

\* no field or element anywhere in the value is undefined
NoUndefinedFields(v) ==
  v.t # "undefined" /\ NoneUndefined(v.elems)

CodecOps ==
  {"decodePaymentRequired", "parsePaymentRequiredHeader", "paymentMiddleware.decode",
   "decodePaymentResponse", "parsePaymentResponseHeader"}

\* C32: decoding the base64-JSON encoding of a notice, payload or settlement
\* result that has no undefined-valued field gives the value back, and a
\* decoder handed an absent or undecodable header returns null, never throws
C32_HeaderEncodingsRoundTrip ==
  fcCall.op \in CodecOps =>
    /\ ~ fcResult.threw
    /\ (fcCall.encoded /\ NoUndefinedFields(fcCall.value)) => fcResult.value = fcCall.value
    /\ ~ fcCall.encoded => fcResult.value = JNull

C32_Witness ==
  /\ fcCall.op = "parsePaymentRequiredHeader"
  /\ fcCall.encoded
  /\ NoUndefinedFields(fcCall.value)
  /\ fcResult.value = fcCall.value
  /\ fcResult.value.t = "object"

\* C33: getSupported never throws and answers every transport failure with
\* the empty list of kinds, so that isKindSupported is then false
C33_GetSupportedNeverThrows ==
  /\ fcCall.op = "getSupported" =>
       /\ fcResult.type # "throw"
       /\ fcCall.outcome.kind # "2xx" => fcResult = EmptySupported
  /\ (fcCall.op = "isKindSupported" /\ fcCall.outcome.kind # "2xx") =>
       fcResult = [type |-> "boolean", value |-> FALSE]

C33_Witness ==
  /\ fcCall.op = "isKindSupported"
  /\ fcCall.outcome.kind = "timeout"
  /\ fcResult = [type |-> "boolean", value |-> FALSE]

\* one request step of the handler made by conditionalPayment
ConditionalStepAsSpecified ==
  gatePc \in {"idle", "done"} =>
    IF fcCall'.shouldRequirePayment
    THEN GateHandle(gateReq'.url, gateReq'.header)
    ELSE /\ nextCalls' = 1
         /\ gateRes' = NoResponse
         /\ gatePc' = "done"
         /\ settleCalls' = << >>
         /\ validatorCalls' = << >>
         /\ settlementResult' = NoResult

\* C34: a request for which the condition is false goes straight to the
\* handler, once, with no response, no settle call and no validator call
\* whatever header it carries; one for which it is true is taken through
\* the steps of paymentMiddleware
C34_ConditionGatesOnlyWhenTrue == [][ConditionalStepAsSpecified]_vars

C34_Witness ==
  /\ fcCall.op = "conditionalPayment"
  /\ ~ fcCall.shouldRequirePayment
  /\ gateReq.header.kind = "b64json"
  /\ nextCalls = 1
  /\ gateRes = NoResponse

\* C35: paymentMiddlewareV1 calls the handler only for a verification that
\* is valid and has status success
C35_V1AdmitsOnlyConfirmed ==
  (gateApi = "paymentMiddlewareV1" /\ v1Gate.nextCalls > 0) =>
    /\ v1Gate.payment.isValid = "true"
    /\ v1Gate.payment.status = "success"

\* the facilitator answered the legacy settle call with a body
SettleAnswered ==
  fcCall.op = "settlePayment" /\ fcCall.outcome.kind = "2xx"
    /\ fcCall.outcome.body.type = "object"

\* C36: settlePayment always returns a result; the result is valid exactly
\* when its status is success, which is exactly when the response has
\* success true and status confirmed; a pending response gives pending, any
\* other response failed, and every error path failed, all three not valid
C36_SettleStatusMapping ==
  fcCall.op = "settlePayment" =>
    /\ fcResult.type = "object"
    /\ fcResult.isValid = "true" <=> fcResult.status = "success"
    /\ fcResult.status = "success" <=>
         (SettleAnswered /\ fcCall.outcome.body.success = "true"
            /\ fcCall.outcome.body.status = "confirmed")
    /\ (SettleAnswered /\ fcCall.outcome.body.status = "pending") =>
         fcResult.status = "pending"
    /\ fcResult.status \in {"success", "pending", "failed"}
    /\ ~ SettleAnswered => fcResult.status = "failed"

\* verify reported the payment valid: a 2xx answer whose isValid is true
VerifyReportedValid ==
  /\ fcCall.outcome.kind = "2xx"
  /\ Field(fcCall.outcome.body, "isValid") = "true"

\* verify reported it invalid or failed in transport
VerifyReportedInvalid ==
  \/ fcCall.outcome.kind # "2xx"
  \/ /\ fcCall.outcome.body.type # "null"
     /\ Field(fcCall.outcome.body, "isValid") # "true"

\* C37: verifyAndSettle reaches the settle endpoint only after verify, and
\* only when verify reported the payment valid; when verify reported it
\* invalid or failed in transport the result is a failure that carries
\* verify's reason and an empty transaction, and settle is not called
C37_SettleOnlyAfterValidVerify ==
  fcCall.op = "verifyAndSettle" =>
    /\ fcResult.calls \in {<< "verify" >>, << "verify", "settle" >>}
    /\ fcResult.calls = << "verify", "settle" >> => VerifyReportedValid
    /\ VerifyReportedInvalid =>
         /\ fcResult.calls = << "verify" >>
         /\ fcResult.result.success = "false"
         /\ fcResult.result.transaction = ""
         /\ fcResult.result.errorReason =
              OrElse(Field(verify([x402Version |-> 2],
                                  [paymentRequirements |-> [network |-> fcCall.network]],
                                  fcCall.outcome), "invalidReason"),
                     UNEXPECTED_VERIFY_ERROR)

C37_Witness ==
  /\ fcCall.op = "verifyAndSettle"
  /\ fcCall.outcome.kind = "2xx"
  /\ Field(fcCall.outcome.body, "isValid") = "false"
  /\ fcCall.settleOutcome.kind = "2xx"
  /\ Field(fcCall.settleOutcome.body, "success") = "true"
  /\ fcResult.calls = << "verify" >>
  /\ fcResult.result.success = "false"

\* C38: paymentMiddlewareV1 settles with sBTC when the x-payment-token-type
\* header is sbtc in any letter case, with USDCx when it is usdcx, and
\* otherwise with the configured token type or STX; the txid path passes
\* the configured token type whatever the header says
C38_HeaderSwitchesSettlementAsset ==
  (gateApi = "paymentMiddlewareV1" /\ v1Gate.call # "none") =>
    /\ v1Gate.call = "settlePayment" =>
         v1Gate.options.tokenType =
           CASE v1Gate.req.tokenTypeHeader \in {"sbtc", "sBTC", "SBTC"} -> "sBTC"
             [] v1Gate.req.tokenTypeHeader \in {"usdcx", "USDCx"} -> "USDCx"
             [] OTHER -> OrElse(v1Gate.config.tokenType, "STX")
    /\ v1Gate.call = "verifyPayment" =>
         /\ v1Gate.options.tokenType = v1Gate.config.tokenType
         /\ v1Gate.options.tokenContract = v1Gate.config.tokenContract

C38_Witness ==
  /\ gateApi = "paymentMiddlewareV1"
  /\ v1Gate.call = "settlePayment"
  /\ v1Gate.config.tokenType = "STX"
  /\ v1Gate.req.tokenTypeHeader = "SBTC"
  /\ v1Gate.options.tokenType = "sBTC"

PollerRuns == fcCall.op = "waitForConfirmation" /\ fcCall.pc = "polling"
PollerDone == fcCall.op = "waitForConfirmation" /\ fcCall.pc = "done"

\* the last verifyPayment call of the poller gave a result
PollerSawResult == fcCall.i > 0 /\ fcCall.last.type = "object"

\* where waitForConfirmation stands after its verifyPayment calls
PollerAsSpecified ==
  fcCall.op = "waitForConfirmation" =>
    /\ fcCall.i <= fcCall.maxAttempts
    /\ PollerRuns => fcCall.i < fcCall.maxAttempts
    /\ (PollerRuns /\ PollerSawResult) =>
         /\ ~ (fcCall.last.isValid = "true" /\ fcCall.last.status = "success")
         /\ fcCall.last.status # "failed"
    /\ (PollerDone /\ PollerSawResult) =>
         IF fcCall.last.isValid = "true" /\ fcCall.last.status = "success"
         THEN fcResult = fcCall.last
         ELSE IF fcCall.last.status = "failed"
         THEN fcResult = Thrown("Transaction failed")
         ELSE fcCall.i = fcCall.maxAttempts /\ fcResult = NullBody
    /\ (PollerDone /\ fcCall.i = 0) => fcResult = NullBody

====
